---- MODULE Spec2Model ----
(***************************************************************************)
(* A model of csuperlu: the outcome classifier of the simple driver, the   *)
(* compressed-column matrix built from raw vectors, and the triplet        *)
(* (dictionary-of-keys) sparse matrix with its conversion to compressed-   *)
(* column form.                                                            *)
(*                                                                         *)
(* Each component has its own specification over its own variables; the    *)
(* variables of the other components stay at their initial values.         *)
(***************************************************************************)
EXTENDS Integers, Sequences, FiniteSets, TLC

VARIABLES
    \* ---- outcome classifier (src/src/c/simple_driver.rs, c/value_type.rs)
    cl_pc,        \* "idle" before the solver returned, "done" after classification
    cl_args,      \* what the *gssv call left behind: info, num_cols_a, x, perm_c, perm_r, l, u
    cl_result,    \* Result<SimpleSolution, SimpleError> / CSimpleResult
    \* ---- compressed-column matrix from raw vectors (src/src/c/comp_col.rs, src/src/comp_col.rs)
    cc_pc,        \* "start", "made", "raw", "remade", "dropped"
    cc_raw,       \* the CompColRaw handed to from_raw
    cc_mat,       \* Result<CompColMat, Error>, or a panic
    cc_back,      \* what to_raw() returned
    cc_own,       \* who owns each backing vector, the frees made, the stores made and destroyed
    \* ---- compressed-column view and its lookups (src/src/comp_col.rs)
    vw_pc,        \* "start", "made", "queried"
    vw,           \* the CompColMatrix that from_vectors built
    vw_query,     \* the last value() / mul() call
    vw_answer,    \* and its result
    \* ---- triplet matrix and its conversion (src/src/sparse_matrix.rs)
    sm,           \* the SparseMat: num_rows, num_cols, non_zero_vals
    sm_pc,        \* "building", "converted", "queried"
    sm_ccf,       \* the compressed-column view produced by the conversion
    sm_query,     \* the last value() call on the view
    sm_answer,    \* and its result
    \* ---- solver options and solve entry points (src/src/c/options.rs,
    \* ---- src/src/c/simple_driver.rs, src/src/c/value_type.rs, src/src/simple_driver.rs)
    sv_pc,        \* "start", "setup", "panicked", "done"
    sv_options,   \* the SimpleDriverOptions the caller is setting up
    sv_call,      \* the solve invocation: entry point, arguments, the solver's answer
    sv_solver,    \* the calls of the external routine *gssv, in order
    sv_result,    \* what the entry point returned
    \* ---- constructors that take their arguments and return a value
    \* ---- (src/src/sparse_matrix.rs, src/src/c/dense/create_dense_mat.rs, src/src/lu_decomp.rs)
    fn_call,      \* the call made: the function and its arguments
    fn_result     \* what it returned, or that it panicked

clVars == <<cl_pc, cl_args, cl_result>>
ccVars == <<cc_pc, cc_raw, cc_mat, cc_back, cc_own>>
vwVars == <<vw_pc, vw, vw_query, vw_answer>>
smVars == <<sm, sm_pc, sm_ccf, sm_query, sm_answer>>
svVars == <<sv_pc, sv_options, sv_call, sv_solver, sv_result>>
fnVars == <<fn_call, fn_result>>
vars == <<cl_pc, cl_args, cl_result,
          cc_pc, cc_raw, cc_mat, cc_back, cc_own,
          vw_pc, vw, vw_query, vw_answer,
          sm, sm_pc, sm_ccf, sm_query, sm_answer,
          sv_pc, sv_options, sv_call, sv_solver, sv_result,
          fn_call, fn_result>>

\* ------------------------------------------------------------------------
\* Bounds of the model
\* ------------------------------------------------------------------------
\* largest matrix dimension num_cols_a given to the classifier
MaxN == 3
\* largest number of stored non-zeros in a raw compressed-column matrix
MaxNnz == 2
\* largest number of stored non-zeros in a compressed-column view
MaxViewNnz == 3
\* largest number of columns of a raw compressed-column matrix
MaxCols == 2
\* largest number of rows of a raw compressed-column matrix
MaxRows == 2
\* largest dimension of a triplet matrix
MaxDim == 2
\* largest number of entries stored in a triplet matrix
MaxEntries == 3
\* largest dimension of the matrix A of a solve
MaxSolveDim == 2
\* largest number of rows and of columns asked of a dense matrix, and largest
\* number of values handed over for it
MaxDenseDim == 2
MaxDenseLen == 4
\* largest number of rows and of columns of a factor handed to LUDecomp
MaxFactorDim == 2
\* largest number of matrices in a list given to concat_cols / concat_rows
MaxBlocks == 3
\* largest number of block rows, and of blocks in a row, of a grid given to concat
MaxGridRows == 2
MaxGridCols == 2

\* ------------------------------------------------------------------------
\* Rust values
\* ------------------------------------------------------------------------
\* Option<T>: None is the empty sequence, Some(v) the one-element sequence
None == <<>>
Some(v) == <<v>>
IsSome(o) == Len(o) = 1
Unwrap(o) == o[1]

\* i32::MAX and i32::MIN
I32Max == 2147483647
I32Min == -2147483647 - 1

\* A negative i32 cast to usize sign-extends to a value of at least
\* 2^64 - 2^31, above the length of any slice.  The model's integers are
\* 32 bits wide, so the largest of them stands for that value.
UsizeWrapped == 2147483647

\* `i as usize` for an i32
AsUsize(i) == IF i < 0 THEN UsizeWrapped ELSE i

\* usize::try_from(i) / i.try_into() for an i32: fails on a negative value
TryIntoUsize(i) == IF i < 0 THEN None ELSE Some(i)

\* i32::try_from(n) for a usize: fails above i32::MAX
TryFromUsize(n) == IF n > I32Max THEN None ELSE Some(n)

\* ------------------------------------------------------------------------
\* Outcome classifier
\* ------------------------------------------------------------------------
\* Error::UnknownError and Error::OutOfMemory { mem_alloc_at_failure }
UnknownError == [kind |-> "UnknownError", mem_alloc_at_failure |-> None]
OutOfMemory(bytes) == [kind |-> "OutOfMemory", mem_alloc_at_failure |-> Some(bytes)]

\* LUDecomp::new with the two factors taken in the wrong order
LUDecomp_new_swapped(l, u) == [l |-> u, u |-> l]

\* LUDecomp::new(l, u)
LUDecomp_new(l, u) == [l |-> l, u |-> u]

\* simple_result_from_vectors reporting info itself as the byte count
simple_result_from_vectors_raw_bytes(info, n, x, perm_c, perm_r, l, u) ==
    IF info < 0
    THEN [tag |-> "Err", x |-> None, perm_c |-> None, perm_r |-> None,
          lu |-> None, singular_column |-> None, error |-> Some(UnknownError)]
    ELSE IF info = 0
    THEN [tag |-> "Ok", x |-> Some(x), perm_c |-> Some(perm_c), perm_r |-> Some(perm_r),
          lu |-> Some([l |-> l, u |-> u]), singular_column |-> None, error |-> None]
    ELSE IF AsUsize(info) <= n
    THEN [tag |-> "SingularFact", x |-> None, perm_c |-> Some(perm_c),
          perm_r |-> Some(perm_r), lu |-> Some([l |-> l, u |-> u]),
          singular_column |-> Some(AsUsize(info) - 1), error |-> None]
    ELSE [tag |-> "Err", x |-> None, perm_c |-> None, perm_r |-> None,
          lu |-> None, singular_column |-> None,
          error |-> Some(OutOfMemory(AsUsize(info)))]

\* simple_result_from_vectors: Ok(SimpleSolution), Err(SingularFact) or Err(Err(e))
simple_result_from_vectors(info, n, x, perm_c, perm_r, l, u) ==
    IF info < 0
    THEN [tag |-> "Err", x |-> None, perm_c |-> None, perm_r |-> None,
          lu |-> None, singular_column |-> None, error |-> Some(UnknownError)]
    ELSE IF info = 0
    THEN [tag |-> "Ok", x |-> Some(x), perm_c |-> Some(perm_c), perm_r |-> Some(perm_r),
          lu |-> Some(LUDecomp_new(l, u)), singular_column |-> None, error |-> None]
    ELSE IF AsUsize(info) <= n
    THEN [tag |-> "SingularFact", x |-> None, perm_c |-> Some(perm_c),
          perm_r |-> Some(perm_r), lu |-> Some(LUDecomp_new(l, u)),
          singular_column |-> Some(AsUsize(info) - 1), error |-> None]
    ELSE [tag |-> "Err", x |-> None, perm_c |-> None, perm_r |-> None,
          lu |-> None, singular_column |-> None,
          error |-> Some(OutOfMemory(AsUsize(info) - n))]

\* CSimpleResult::from_vectors comparing info < num_cols_a, as its doc comment
\* words it, instead of info <= num_cols_a
CSimpleResult_from_vectors_strict(info, n, x, perm_c, perm_r, l, u) ==
    IF info > 0 /\ AsUsize(info) = n
    THEN [tag |-> "Err", x |-> None, perm_c |-> None, perm_r |-> None,
          lu |-> None, singular_column |-> None,
          error |-> Some(OutOfMemory(AsUsize(info) - n))]
    ELSE simple_result_from_vectors(info, n, x, perm_c, perm_r, l, u)

\* CSimpleResult::from_vectors: the same split, the factors kept as a pair.
\* Its Solution variant is tagged "Ok" here so that both classifiers share
\* one outcome type.
CSimpleResult_from_vectors(info, n, x, perm_c, perm_r, l, u) ==
    IF info < 0
    THEN [tag |-> "Err", x |-> None, perm_c |-> None, perm_r |-> None,
          lu |-> None, singular_column |-> None, error |-> Some(UnknownError)]
    ELSE IF info = 0
    THEN [tag |-> "Ok", x |-> Some(x), perm_c |-> Some(perm_c), perm_r |-> Some(perm_r),
          lu |-> Some([l |-> l, u |-> u]), singular_column |-> None, error |-> None]
    ELSE IF AsUsize(info) <= n
    THEN [tag |-> "SingularFact", x |-> None, perm_c |-> Some(perm_c),
          perm_r |-> Some(perm_r), lu |-> Some([l |-> l, u |-> u]),
          singular_column |-> Some(AsUsize(info) - 1), error |-> None]
    ELSE [tag |-> "Err", x |-> None, perm_c |-> None, perm_r |-> None,
          lu |-> None, singular_column |-> None,
          error |-> Some(OutOfMemory(AsUsize(info) - n))]

\* The status codes the solver may leave in info (an i32)
InfoValues == (-2 .. (MaxN + 2)) \cup {I32Min, I32Max}

\* The contents a permutation buffer of length n may hold after the call
PermBuffers(n) == {[i \in 1..n |-> i - 1], [i \in 1..n |-> n - i]}

\* The handles of the dense matrix b/x and of the factors l and u
Handles == {"h0", "h1"}

NoArgs == [entry |-> "none", info |-> 0, num_cols_a |-> 0, x |-> "h0",
           perm_c |-> <<>>, perm_r |-> <<>>, l |-> "h0", u |-> "h0"]
NoResult == [tag |-> "none", x |-> None, perm_c |-> None, perm_r |-> None,
             lu |-> None, singular_column |-> None, error |-> None]

ClInit ==
    /\ cl_pc = "idle"
    /\ cl_args = NoArgs
    /\ cl_result = NoResult

\* The tail of simple_driver: *gssv has returned info, the result is classified
SimpleDriverClassify ==
    /\ cl_pc = "idle"
    /\ \E info \in InfoValues, n \in 0..MaxN, x \in Handles, l \in Handles, u \in Handles :
       \E pc \in PermBuffers(n), pr \in PermBuffers(n) :
          /\ cl_args' = [entry |-> "simple_driver", info |-> info, num_cols_a |-> n,
                         x |-> x, perm_c |-> pc, perm_r |-> pr, l |-> l, u |-> u]
          /\ cl_result' = simple_result_from_vectors(info, n, x, pc, pr, l, u)
    /\ cl_pc' = "done"
    /\ UNCHANGED <<ccVars, vwVars, smVars, svVars, fnVars>>

\* The tail of c_simple_driver: the same with CSimpleResult::from_vectors
CSimpleDriverClassify ==
    /\ cl_pc = "idle"
    /\ \E info \in InfoValues, n \in 0..MaxN, x \in Handles, l \in Handles, u \in Handles :
       \E pc \in PermBuffers(n), pr \in PermBuffers(n) :
          /\ cl_args' = [entry |-> "c_simple_driver", info |-> info, num_cols_a |-> n,
                         x |-> x, perm_c |-> pc, perm_r |-> pr, l |-> l, u |-> u]
          /\ cl_result' = CSimpleResult_from_vectors(info, n, x, pc, pr, l, u)
    /\ cl_pc' = "done"
    /\ UNCHANGED <<ccVars, vwVars, smVars, svVars, fnVars>>

\* ------------------------------------------------------------------------
\* Solver options (crate::c::options)
\* ------------------------------------------------------------------------
\* enum ColumnPermPolicy and the colperm_t value each policy selects
ColumnPermPolicy == {"Natural", "MmdAtA", "MmdAtPlusA", "ColAMD"}
colperm_t(policy) ==
    CASE policy = "Natural" -> "NATURAL"
      [] policy = "MmdAtA" -> "MMD_ATA"
      [] policy = "MmdAtPlusA" -> "MMD_AT_PLUS_A"
      [] policy = "ColAMD" -> "COLAMD"

\* enum rowperm_t
rowperm_t == {"NOROWPERM", "LargeDiag_MC64", "LargeDiag_HWPM", "MY_PERMR"}

\* The diagonal pivot thresholds a caller sets, in tenths (10 is u = 1.0)
ThreshValues == {1, 10}

\* CSuperluOptions::new(): the defaults listed in its documentation.  RowPerm
\* is not among the fields set_default_options assigns, so it holds whatever
\* the uninitialised struct held: row_perm.
CSuperluOptions_new(row_perm) ==
    [ColPerm |-> "COLAMD", RowPerm |-> row_perm, DiagPivotThresh |-> 10,
     SymmetricMode |-> "NO"]

\* CSuperluOptions::set_diagonal_pivot_threshold
CSuperluOptions_set_diagonal_pivot_threshold(o, u) == [o EXCEPT !.DiagPivotThresh = u]

\* CSuperluOptions::set_symmetric_mode
set_symmetric_mode(o, value) == [o EXCEPT !.SymmetricMode = IF value THEN "YES" ELSE "NO"]

\* CSuperluOptions::set_column_perm_policy
set_column_perm_policy(o, policy) == [o EXCEPT !.ColPerm = colperm_t(policy)]

\* set_user_column_perm that leaves the policy the options held
set_user_column_perm_kept(o) == o

\* CSuperluOptions::set_user_column_perm
set_user_column_perm(o) == [o EXCEPT !.ColPerm = "MY_PERMC"]

\* set_user_row_perm that sets the column option, as its doc comment words it
set_user_row_perm_column(o) == [o EXCEPT !.ColPerm = "MY_PERMC"]

\* CSuperluOptions::set_user_row_perm
set_user_row_perm(o) == [o EXCEPT !.RowPerm = "MY_PERMR"]

\* CSuperluOptions::get_options
get_options(o) == o

\* SimpleDriverOptions::new()
SimpleDriverOptions_new(row_perm) ==
    [options |-> CSuperluOptions_new(row_perm), diagonally_dominant |-> FALSE]

\* A setter of SimpleDriverOptions returns the options it leaves behind and
\* whether it panicked on the way
Done(s) == [tag |-> "Ok", options |-> s]
Panicked(s) == [tag |-> "Panic", options |-> s]

\* SimpleDriverOptions::set_superlu_column_perm
set_superlu_column_perm(s, policy) ==
    IF s.diagonally_dominant
    THEN Panicked(s)
    ELSE Done([s EXCEPT !.options = set_column_perm_policy(@, policy)])

\* SimpleDriverOptions::set_user_column_perm
SimpleDriverOptions_set_user_column_perm(s) ==
    [s EXCEPT !.options = set_user_column_perm(@)]

\* SimpleDriverOptions::set_diagonal_pivot_threshold
set_diagonal_pivot_threshold(s, u) ==
    IF s.diagonally_dominant
    THEN Panicked(s)
    ELSE Done([s EXCEPT !.options = CSuperluOptions_set_diagonal_pivot_threshold(@, u)])

\* SimpleDriverOptions::set_diagonally_dominant
set_diagonally_dominant(s, value, u) ==
    LET s1 == [s EXCEPT !.options = set_symmetric_mode(@, value)]
    IN  IF value
        THEN LET r2 == set_diagonal_pivot_threshold(s1, u)
             IN  IF r2.tag = "Panic" THEN r2
                 ELSE LET r3 == set_superlu_column_perm(r2.options, "MmdAtPlusA")
                      IN  IF r3.tag = "Panic" THEN r3
                          ELSE Done([r3.options EXCEPT !.diagonally_dominant = value])
        ELSE Done([s1 EXCEPT !.diagonally_dominant = value])

\* ------------------------------------------------------------------------
\* Solve entry points (crate::c::simple_driver, crate::c::value_type,
\* crate::simple_driver)
\* ------------------------------------------------------------------------
\* Vec::with_capacity(size) followed by set_len(size): size entries holding
\* whatever the allocation held, junk
uninit_vec(size, junk) == [i \in 1..size |-> junk]

\* Vec::with_capacity(size) left at length 0
with_capacity(size) == <<>>

\* What a Vec holds after *gssv wrote the permutation perm through its
\* as_mut_ptr(): the Vec keeps its own length
written(buf, perm) == [i \in 1..Len(buf) |-> IF i <= Len(perm) THEN perm[i] ELSE buf[i]]

\* make_simple_perms
make_simple_perms(size, perm_c, options, junk) ==
    [perm_c |-> IF IsSome(perm_c) THEN Unwrap(perm_c) ELSE uninit_vec(size, junk),
     perm_r |-> uninit_vec(size, junk),
     options |-> IF IsSome(perm_c)
                 THEN SimpleDriverOptions_set_user_column_perm(options)
                 ELSE options]

\* One call of the external routine *gssv: the arguments it was given
gssv(options, a, perm_c, perm_r, b) ==
    [options |-> options, a |-> a, perm_c |-> perm_c, perm_r |-> perm_r, b |-> b]

\* SolverError { info }
SolverError(info) == [kind |-> "SolverError", info |-> info]

\* SimpleDriver::simple_driver (crate::c::simple_driver): the calls of *gssv
\* it makes and what it returns when the call answers out
simple_driver(options, a, perm_c, b, junk, out) ==
    LET perms == make_simple_perms(a.ncol, perm_c, options, junk)
    IN  [calls |-> <<gssv(get_options(perms.options.options), a,
                          perms.perm_c, perms.perm_r, b)>>,
         result |-> simple_result_from_vectors(out.info, a.ncol, "h0",
                        written(perms.perm_c, out.perm_c),
                        written(perms.perm_r, out.perm_r), "h0", "h1")]

\* ValueType::c_simple_driver (crate::c::value_type)
c_simple_driver(options, a, perm_c, b, junk, out) ==
    LET perms == make_simple_perms(a.ncol, perm_c, options, junk)
    IN  [calls |-> <<gssv(get_options(perms.options.options), a,
                          perms.perm_c, perms.perm_r, b)>>,
         result |-> CSimpleResult_from_vectors(out.info, a.ncol, "h0",
                        written(perms.perm_c, out.perm_c),
                        written(perms.perm_r, out.perm_r), "h0", "h1")]

\* The tail shared by SimpleSystem::solve and SamePattern::solve
solve_result(info, column_perm, row_perm) ==
    IF info # 0
    THEN [tag |-> "Err", x |-> None, perm_c |-> None, perm_r |-> None,
          lu |-> None, singular_column |-> None, error |-> Some(SolverError(info))]
    ELSE [tag |-> "Ok", x |-> Some("h0"), perm_c |-> Some(column_perm),
          perm_r |-> Some(row_perm), lu |-> Some([l |-> "h0", u |-> "h1"]),
          singular_column |-> None, error |-> None]

\* SimpleSystem::solve that reports every status as a solution
SimpleSystem_solve_swallow(a, b, column_perm_policy, row_perm0, junk, out) ==
    LET options == [CSuperluOptions_new(row_perm0)
                       EXCEPT !.ColPerm = colperm_t(column_perm_policy)]
        column_perm == uninit_vec(a.ncol, junk)
        row_perm == uninit_vec(a.nrow, junk)
    IN  [calls |-> <<gssv(options, a, column_perm, row_perm, b)>>,
         result |-> solve_result(0, written(column_perm, out.perm_c),
                                 written(row_perm, out.perm_r))]

\* SimpleSystem::solve
SimpleSystem_solve(a, b, column_perm_policy, row_perm0, junk, out) ==
    LET options == [CSuperluOptions_new(row_perm0)
                       EXCEPT !.ColPerm = colperm_t(column_perm_policy)]
        column_perm == uninit_vec(a.ncol, junk)
        row_perm == uninit_vec(a.nrow, junk)
    IN  [calls |-> <<gssv(options, a, column_perm, row_perm, b)>>,
         result |-> solve_result(out.info, written(column_perm, out.perm_c),
                                 written(row_perm, out.perm_r))]

\* SamePattern::solve that calls the solver again after a non-zero status
SamePattern_solve_retry(a, b, column_perm, row_perm0, out) ==
    LET options == [CSuperluOptions_new(row_perm0) EXCEPT !.ColPerm = "MY_PERMC"]
        row_perm == with_capacity(a.nrow)
        call == gssv(options, a, column_perm, row_perm, b)
    IN  [calls |-> IF out.info # 0 THEN <<call, call>> ELSE <<call>>,
         result |-> solve_result(out.info, written(column_perm, out.perm_c),
                                 written(row_perm, out.perm_r))]

\* SamePattern::solve
SamePattern_solve(a, b, column_perm, row_perm0, out) ==
    LET options == [CSuperluOptions_new(row_perm0) EXCEPT !.ColPerm = "MY_PERMC"]
        row_perm == with_capacity(a.nrow)
    IN  [calls |-> <<gssv(options, a, column_perm, row_perm, b)>>,
         result |-> solve_result(out.info, written(column_perm, out.perm_c),
                                 written(row_perm, out.perm_r))]

\* The typed error of a solve whose A and B disagree on the number of rows
DimensionMismatch == [kind |-> "DimensionMismatch", mem_alloc_at_failure |-> None]

\* A permutation buffer of the matrix dimension, pre-filled from the hint
prefilled(hint, size, junk) ==
    [i \in 1..size |-> IF i <= Len(hint) THEN hint[i] ELSE junk]

\* SimilarValues { a, b, column_perm, row_perm }.solve, by the six steps of a
\* solve variant: A.num_rows == B.num_rows is validated; the buffers have
\* the matrix dimension and are pre-filled from the two permutations; the
\* options ask for the caller's column order and the caller's row order; the
\* routine is called once; its status goes to the outcome classifier
SimilarValues_solve(a, b, column_perm, row_perm, row_perm0, junk, out) ==
    IF a.nrow # b.nrow
    THEN [calls |-> <<>>,
          result |-> [tag |-> "Err", x |-> None, perm_c |-> None, perm_r |-> None,
                      lu |-> None, singular_column |-> None,
                      error |-> Some(DimensionMismatch)]]
    ELSE LET options == set_user_row_perm(set_user_column_perm(
                            CSuperluOptions_new(row_perm0)))
             perm_c == prefilled(column_perm, a.ncol, junk)
             perm_r == prefilled(row_perm, a.nrow, junk)
         IN  [calls |-> <<gssv(options, a, perm_c, perm_r, b)>>,
              result |-> CSimpleResult_from_vectors(out.info, a.ncol, "h0",
                             written(perm_c, out.perm_c),
                             written(perm_r, out.perm_r), "h0", "h1")]

\* The matrices of a solve: A is nrow x ncol, B is nrow x 1
SolveA == [nrow : 1..MaxSolveDim, ncol : 1..MaxSolveDim]
SolveB == [nrow : 1..MaxSolveDim, ncol : {1}]

\* The statuses *gssv answers with, and the permutations it writes
SolveInfos == (-1) .. (MaxSolveDim + 2)
SolverOutputs(a) ==
    {[info |-> i, perm_c |-> pc, perm_r |-> pr] :
        i \in SolveInfos, pc \in PermBuffers(a.ncol), pr \in PermBuffers(a.nrow)}

\* The permutation vectors a caller hands in: of any length
PermHints == UNION {PermBuffers(k) : k \in 0..(MaxSolveDim + 1)}

\* What freshly allocated memory may hold
JunkValues == {-1, 0}

NoOptions == [options |-> [ColPerm |-> "none", RowPerm |-> "none",
                           DiagPivotThresh |-> 0, SymmetricMode |-> "none"],
              diagonally_dominant |-> FALSE]
NoCall == [entry |-> "none", options |-> NoOptions, a |-> [nrow |-> 0, ncol |-> 0],
           b |-> [nrow |-> 0, ncol |-> 0], perm_c |-> None, perm_r |-> None,
           policy |-> "none", out |-> [info |-> 0, perm_c |-> <<>>, perm_r |-> <<>>]]

SvInit ==
    /\ sv_pc = "start"
    /\ sv_options = NoOptions
    /\ sv_call = NoCall
    /\ sv_solver = <<>>
    /\ sv_result = NoResult

\* let mut options = SimpleDriverOptions::new()
OptionsNew ==
    /\ sv_pc = "start"
    /\ \E row_perm0 \in rowperm_t : sv_options' = SimpleDriverOptions_new(row_perm0)
    /\ sv_pc' = "setup"
    /\ UNCHANGED <<sv_call, sv_solver, sv_result, clVars, ccVars, vwVars, smVars, fnVars>>

\* options.set_superlu_column_perm(policy)
SetSuperluColumnPerm ==
    /\ sv_pc = "setup"
    /\ \E policy \in ColumnPermPolicy :
          LET r == set_superlu_column_perm(sv_options, policy)
          IN  /\ sv_options' = r.options
              /\ sv_pc' = IF r.tag = "Panic" THEN "panicked" ELSE "setup"
    /\ UNCHANGED <<sv_call, sv_solver, sv_result, clVars, ccVars, vwVars, smVars, fnVars>>

\* options.set_user_column_perm()
SetUserColumnPerm ==
    /\ sv_pc = "setup"
    /\ sv_options' = SimpleDriverOptions_set_user_column_perm(sv_options)
    /\ UNCHANGED <<sv_pc, sv_call, sv_solver, sv_result, clVars, ccVars, vwVars, smVars, fnVars>>

\* options.set_diagonally_dominant(value, u)
SetDiagonallyDominant ==
    /\ sv_pc = "setup"
    /\ \E value \in BOOLEAN, u \in ThreshValues :
          LET r == set_diagonally_dominant(sv_options, value, u)
          IN  /\ sv_options' = r.options
              /\ sv_pc' = IF r.tag = "Panic" THEN "panicked" ELSE "setup"
    /\ UNCHANGED <<sv_call, sv_solver, sv_result, clVars, ccVars, vwVars, smVars, fnVars>>

\* options.set_diagonal_pivot_threshold(u)
SetDiagonalPivotThreshold ==
    /\ sv_pc = "setup"
    /\ \E u \in ThreshValues :
          LET r == set_diagonal_pivot_threshold(sv_options, u)
          IN  /\ sv_options' = r.options
              /\ sv_pc' = IF r.tag = "Panic" THEN "panicked" ELSE "setup"
    /\ UNCHANGED <<sv_call, sv_solver, sv_result, clVars, ccVars, vwVars, smVars, fnVars>>

\* f64::simple_driver(options, &a, perm_c, b, &mut stat)
SimpleDriverSolve ==
    /\ sv_pc = "setup"
    /\ \E a \in SolveA, b \in SolveB, junk \in JunkValues,
          perm_c \in {None} \cup {Some(p) : p \in PermHints} :
       \E out \in SolverOutputs(a) :
          LET r == simple_driver(sv_options, a, perm_c, b, junk, out)
          IN  /\ sv_call' = [entry |-> "simple_driver", options |-> sv_options,
                             a |-> a, b |-> b, perm_c |-> perm_c, perm_r |-> None,
                             policy |-> "none", out |-> out]
              /\ sv_solver' = sv_solver \o r.calls
              /\ sv_result' = r.result
    /\ sv_pc' = "done"
    /\ UNCHANGED <<sv_options, clVars, ccVars, vwVars, smVars, fnVars>>

\* f64::c_simple_driver(options, &a, perm_c, b, &mut stat)
CSimpleDriverSolve ==
    /\ sv_pc = "setup"
    /\ \E a \in SolveA, b \in SolveB, junk \in JunkValues,
          perm_c \in {None} \cup {Some(p) : p \in PermHints} :
       \E out \in SolverOutputs(a) :
          LET r == c_simple_driver(sv_options, a, perm_c, b, junk, out)
          IN  /\ sv_call' = [entry |-> "c_simple_driver", options |-> sv_options,
                             a |-> a, b |-> b, perm_c |-> perm_c, perm_r |-> None,
                             policy |-> "none", out |-> out]
              /\ sv_solver' = sv_solver \o r.calls
              /\ sv_result' = r.result
    /\ sv_pc' = "done"
    /\ UNCHANGED <<sv_options, clVars, ccVars, vwVars, smVars, fnVars>>

\* SimpleSystem { a, b }.solve(&mut stat, column_perm_policy)
SimpleSystemSolve ==
    /\ sv_pc = "start"
    /\ \E a \in SolveA, b \in SolveB, junk \in JunkValues,
          policy \in ColumnPermPolicy, row_perm0 \in rowperm_t :
       \E out \in SolverOutputs(a) :
          LET r == SimpleSystem_solve(a, b, policy, row_perm0, junk, out)
          IN  /\ sv_call' = [entry |-> "SimpleSystem", options |-> NoOptions,
                             a |-> a, b |-> b, perm_c |-> None, perm_r |-> None,
                             policy |-> policy, out |-> out]
              /\ sv_solver' = sv_solver \o r.calls
              /\ sv_result' = r.result
    /\ sv_pc' = "done"
    /\ UNCHANGED <<sv_options, clVars, ccVars, vwVars, smVars, fnVars>>

\* SamePattern { a, b, column_perm }.solve(&mut stat)
SamePatternSolve ==
    /\ sv_pc = "start"
    /\ \E a \in SolveA, b \in SolveB, column_perm \in PermHints, row_perm0 \in rowperm_t :
       \E out \in SolverOutputs(a) :
          LET r == SamePattern_solve(a, b, column_perm, row_perm0, out)
          IN  /\ sv_call' = [entry |-> "SamePattern", options |-> NoOptions,
                             a |-> a, b |-> b, perm_c |-> Some(column_perm),
                             perm_r |-> None, policy |-> "none", out |-> out]
              /\ sv_solver' = sv_solver \o r.calls
              /\ sv_result' = r.result
    /\ sv_pc' = "done"
    /\ UNCHANGED <<sv_options, clVars, ccVars, vwVars, smVars, fnVars>>

\* SimilarValues { a, b, column_perm, row_perm }.solve(&mut stat)
SimilarValuesSolve ==
    /\ sv_pc = "start"
    /\ \E a \in SolveA, b \in SolveB, column_perm \in PermHints, row_perm \in PermHints,
          row_perm0 \in rowperm_t, junk \in JunkValues :
       \E out \in SolverOutputs(a) :
          LET r == SimilarValues_solve(a, b, column_perm, row_perm, row_perm0, junk, out)
          IN  /\ sv_call' = [entry |-> "SimilarValues", options |-> NoOptions,
                             a |-> a, b |-> b, perm_c |-> Some(column_perm),
                             perm_r |-> Some(row_perm), policy |-> "none", out |-> out]
              /\ sv_solver' = sv_solver \o r.calls
              /\ sv_result' = r.result
    /\ sv_pc' = "done"
    /\ UNCHANGED <<sv_options, clVars, ccVars, vwVars, smVars, fnVars>>

\* ------------------------------------------------------------------------
\* Compressed-column matrix from raw vectors (crate::c::comp_col)
\* ------------------------------------------------------------------------
\* check_comp_col_conditions without the comparison of the last offset with
\* the number of stored entries
check_comp_col_conditions_no_last(non_zero_vals, row_indices, col_offsets) ==
    IF Len(col_offsets) = 0 THEN "Err"
    ELSE IF Len(non_zero_vals) # Len(row_indices) THEN "Err"
    ELSE "Ok"

\* check_comp_col_conditions: "Ok", "Err" (Error::CompColError) or "Panic"
\* (the unwrap of the failed i32 -> usize conversion of the last offset)
check_comp_col_conditions(non_zero_vals, row_indices, col_offsets) ==
    IF Len(col_offsets) = 0 THEN "Err"
    ELSE IF Len(non_zero_vals) # Len(row_indices) THEN "Err"
    ELSE LET num_non_zeros == col_offsets[Len(col_offsets)]
         IN  IF ~IsSome(TryIntoUsize(num_non_zeros)) THEN "Panic"
             ELSE IF Len(row_indices) # Unwrap(TryIntoUsize(num_non_zeros)) THEN "Err"
             ELSE "Ok"

\* The SuperMatrix header before *Create_CompCol_Matrix filled it, and after
\* Destroy_SuperMatrix_Store
NoSuperMatrix == [nrow |-> 0, ncol |-> 0, nnz |-> 0]

\* create_comp_col_matrix: the check, then *Create_CompCol_Matrix with
\* m = i32::try_from(num_rows).unwrap(), n = col_offsets.len() - 1 and
\* nnz = non_zero_vals.len()
create_comp_col_matrix(num_rows, non_zero_vals, row_indices, col_offsets) ==
    LET checked == check_comp_col_conditions(non_zero_vals, row_indices, col_offsets)
    IN  IF checked # "Ok" THEN [tag |-> checked, super_matrix |-> NoSuperMatrix]
        ELSE IF ~IsSome(TryFromUsize(num_rows))
        THEN [tag |-> "Panic", super_matrix |-> NoSuperMatrix]
        ELSE [tag |-> "Ok",
              super_matrix |-> [nrow |-> Unwrap(TryFromUsize(num_rows)),
                                ncol |-> Len(col_offsets) - 1,
                                nnz |-> Len(non_zero_vals)]]

\* CompColMat::from_raw: on success the matrix owns the three vectors as given
from_raw(raw) ==
    LET created == create_comp_col_matrix(raw.num_rows, raw.non_zero_vals,
                                          raw.row_indices, raw.col_offsets)
    IN  IF created.tag # "Ok"
        THEN [tag |-> created.tag, non_zero_vals |-> <<>>, row_indices |-> <<>>,
              col_offsets |-> <<>>, super_matrix |-> NoSuperMatrix]
        ELSE [tag |-> "Ok", non_zero_vals |-> raw.non_zero_vals,
              row_indices |-> raw.row_indices, col_offsets |-> raw.col_offsets,
              super_matrix |-> created.super_matrix]

\* CSuperMatrix::num_rows / num_cols: the i32 header fields cast to usize
CSuperMatrix_num_rows(super_matrix) == AsUsize(super_matrix.nrow)
CSuperMatrix_num_cols(super_matrix) == AsUsize(super_matrix.ncol)

\* to_raw reading the number of rows from the wrong header field
to_raw_ncol(mat) ==
    [num_rows |-> CSuperMatrix_num_cols(mat.super_matrix),
     non_zero_vals |-> mat.non_zero_vals,
     row_indices |-> mat.row_indices,
     col_offsets |-> mat.col_offsets]

\* CompColMat::to_raw: the vectors are moved out, num_rows is read back from
\* the SuperMatrix header
to_raw(mat) ==
    [num_rows |-> CSuperMatrix_num_rows(mat.super_matrix),
     non_zero_vals |-> mat.non_zero_vals,
     row_indices |-> mat.row_indices,
     col_offsets |-> mat.col_offsets]

\* All sequences over S of length at most n
SeqsUpTo(S, n) == UNION {[1..k -> S] : k \in 0..n}

\* The non-zero values of a raw matrix with k entries: pairwise different, so
\* that a lookup that lands on the wrong entry shows
ValPrefix(k) == [i \in 1..k |-> 2 * i + 3]

\* The raw vectors a caller may hand to from_raw: any lengths, offsets and
\* row indices, including negative offsets and row indices out of range
RawInputs ==
    [num_rows : 0..MaxRows,
     non_zero_vals : {ValPrefix(k) : k \in 0..MaxNnz},
     row_indices : SeqsUpTo(0..MaxRows, MaxNnz),
     col_offsets : SeqsUpTo(-1..MaxNnz, MaxCols + 1)]

NoRaw == [num_rows |-> 0, non_zero_vals |-> <<>>, row_indices |-> <<>>, col_offsets |-> <<>>]
NoMat == [tag |-> "none", non_zero_vals |-> <<>>, row_indices |-> <<>>,
          col_offsets |-> <<>>, super_matrix |-> NoSuperMatrix]

\* The three backing vectors of a matrix
Vectors == {"non_zero_vals", "row_indices", "col_offsets"}

\* Before the caller has made the vectors: nothing is owned, freed, created
\* or destroyed.  owners[v] holds "raw" while a CompColRaw (or the locals it
\* was destructured into) holds a Vec for the buffer of v, "mat" while a
\* CompColMat does.
NoOwnership ==
    [owners |-> [v \in Vectors |-> {}],
     rust_frees |-> [v \in Vectors |-> 0],
     lib_frees |-> [v \in Vectors |-> 0],
     stores_created |-> 0,
     stores_destroyed |-> 0]

\* A Vec is made for each buffer and held by `who`: vec![..], or
\* Vec::from_raw_parts on the pointer of a Vec that is still held elsewhere
vec_made(own, who) ==
    [own EXCEPT !.owners = [v \in Vectors |-> own.owners[v] \cup {who}]]

\* The Vecs held by `who` go without being freed: a move, or mem::forget
vec_gone(own, who) ==
    [own EXCEPT !.owners = [v \in Vectors |-> own.owners[v] \ {who}]]

\* The Vecs held by `who` are dropped: Rust frees each buffer
vec_dropped(own, who) ==
    [own EXCEPT !.owners = [v \in Vectors |-> own.owners[v] \ {who}],
                !.rust_frees = [v \in Vectors |->
                                  IF who \in own.owners[v] THEN own.rust_frees[v] + 1
                                  ELSE own.rust_frees[v]]]

\* *Create_CompCol_Matrix allocates the store of the SuperMatrix
store_created(own) == [own EXCEPT !.stores_created = @ + 1]

\* destroy_comp_col_matrix in its place: Destroy_CompCol_Matrix frees the
\* store and the three buffers it points to
destroy_comp_col_matrix(own) ==
    [own EXCEPT !.stores_destroyed = @ + 1,
                !.lib_frees = [v \in Vectors |-> own.lib_frees[v] + 1]]

\* destroy_super_matrix_store: Destroy_SuperMatrix_Store frees the store only
destroy_super_matrix_store(own) == [own EXCEPT !.stores_destroyed = @ + 1]

\* from_raw: the Vecs are moved out of raw; on success the store is created
\* and the Vecs move into the matrix, on Err and on a panic that unwinds they
\* are dropped where they are
from_raw_own(own, tag) ==
    IF tag = "Ok"
    THEN vec_made(vec_gone(store_created(own), "raw"), "mat")
    ELSE vec_dropped(own, "raw")

\* Drop for CompColMat: drop() destroys the store, then the fields are
\* dropped (CSuperMatrix has no Drop of its own)
drop_own(own) ==
    vec_dropped(destroy_super_matrix_store(own), "mat")

\* to_raw: Vec::from_raw_parts for the three buffers, the store destroyed,
\* mem::forget(self)
to_raw_own(own) ==
    vec_gone(destroy_super_matrix_store(vec_made(own, "raw")), "mat")

CcInit ==
    /\ cc_pc = "start"
    /\ cc_raw = NoRaw
    /\ cc_mat = NoMat
    /\ cc_back = NoRaw
    /\ cc_own = NoOwnership

\* unsafe { CompColMat::from_raw(raw) }
FromRaw ==
    /\ cc_pc = "start"
    /\ \E raw \in RawInputs :
          /\ cc_raw' = raw
          /\ cc_mat' = from_raw(raw)
          /\ cc_own' = from_raw_own(vec_made(cc_own, "raw"), from_raw(raw).tag)
    /\ cc_pc' = "made"
    /\ UNCHANGED <<cc_back, clVars, vwVars, smVars, svVars, fnVars>>

\* a.to_raw() on a matrix that from_raw returned
ToRaw ==
    /\ cc_pc = "made"
    /\ cc_mat.tag = "Ok"
    /\ cc_back' = to_raw(cc_mat)
    /\ cc_mat' = NoMat
    /\ cc_own' = to_raw_own(cc_own)
    /\ cc_pc' = "raw"
    /\ UNCHANGED <<cc_raw, clVars, vwVars, smVars, svVars, fnVars>>

\* unsafe { CompColMat::from_raw(raw) } on the vectors to_raw gave back
FromRawAgain ==
    /\ cc_pc = "raw"
    /\ cc_mat' = from_raw(cc_back)
    /\ cc_own' = from_raw_own(cc_own, from_raw(cc_back).tag)
    /\ cc_pc' = "remade"
    /\ UNCHANGED <<cc_raw, cc_back, clVars, vwVars, smVars, svVars, fnVars>>

\* A matrix that from_raw returned goes out of scope
DropMat ==
    /\ cc_pc \in {"made", "remade"}
    /\ cc_mat.tag = "Ok"
    /\ cc_mat' = NoMat
    /\ cc_own' = drop_own(cc_own)
    /\ cc_pc' = "dropped"
    /\ UNCHANGED <<cc_raw, cc_back, clVars, vwVars, smVars, svVars, fnVars>>

\* The CompColRaw that to_raw returned goes out of scope
DropRaw ==
    /\ cc_pc = "raw"
    /\ cc_own' = vec_dropped(cc_own, "raw")
    /\ cc_pc' = "dropped"
    /\ UNCHANGED <<cc_raw, cc_mat, cc_back, clVars, vwVars, smVars, svVars, fnVars>>

\* ------------------------------------------------------------------------
\* Compressed-column view and its lookups (crate::comp_col::CompColMatrix)
\* ------------------------------------------------------------------------
NoView == [tag |-> "none", nrow |-> 0, ncol |-> 0, nnz |-> 0,
           nzval |-> <<>>, rowind |-> <<>>, colptr |-> <<>>]

\* CompColMatrix::from_vectors: c_create_comp_col_matrix(..).expect(..), then
\* the vectors are forgotten and live on behind the NCformat store
from_vectors(num_rows, non_zero_values, row_indices, column_offsets) ==
    LET created == create_comp_col_matrix(num_rows, non_zero_values,
                                          row_indices, column_offsets)
    IN  IF created.tag # "Ok"
        THEN [NoView EXCEPT !.tag = "Panic"]
        ELSE [tag |-> "Ok",
              nrow |-> created.super_matrix.nrow,
              ncol |-> created.super_matrix.ncol,
              nnz |-> created.super_matrix.nnz,
              nzval |-> non_zero_values,
              rowind |-> row_indices,
              colptr |-> column_offsets]

\* CompColMatrix::num_rows / num_columns
num_rows(a) == AsUsize(a.nrow)
num_columns(a) == AsUsize(a.ncol)

\* slice::from_raw_parts(ptr, len): the first len elements behind the store
SliceOf(vec, len) == SubSeq(vec, 1, len)

\* CompColMatrix::non_zero_values / row_indices / column_offsets
non_zero_values(a) == SliceOf(a.nzval, AsUsize(a.nnz))
row_indices(a) == SliceOf(a.rowind, AsUsize(a.nnz))
column_offsets(a) == SliceOf(a.colptr, num_columns(a) + 1)

\* <[i32]>::binary_search: Some(index into the slice) when found, None when not
RECURSIVE binary_search_from(_, _, _, _)
binary_search_from(slice, target, left, right) ==
    IF left < right
    THEN LET mid == left + ((right - left) \div 2)
         IN  IF slice[mid + 1] < target THEN binary_search_from(slice, target, mid + 1, right)
             ELSE IF slice[mid + 1] > target THEN binary_search_from(slice, target, left, mid)
             ELSE Some(mid)
    ELSE None
\* binary_search that leaves the last element of the slice out
binary_search_short(slice, target) ==
    IF Len(slice) = 0 THEN None ELSE binary_search_from(slice, target, 0, Len(slice) - 1)

binary_search(slice, target) == binary_search_from(slice, target, 0, Len(slice))

Panic == [tag |-> "Panic", out |-> <<>>]
Returned(out) == [tag |-> "Ok", out |-> out]

\* value indexing the non-zero values with the position inside the column,
\* without adding the start of the column
value_no_offset(a, row, col) ==
    IF ~(row < num_rows(a)) THEN Panic
    ELSE IF ~(col < num_columns(a)) THEN Panic
    ELSE LET col_start == AsUsize(column_offsets(a)[col + 1])
             col_end == AsUsize(column_offsets(a)[col + 2])
         IN  IF col_start > col_end \/ col_end > Len(row_indices(a)) THEN Panic
             ELSE LET found == binary_search(SubSeq(row_indices(a), col_start + 1, col_end), row)
                  IN  IF IsSome(found)
                      THEN Returned(<<non_zero_values(a)[Unwrap(found) + 1]>>)
                      ELSE Returned(<<0>>)

\* CompColMatrix::value: the two assertions, the slice of the column (which
\* panics on a range that is reversed or past the end), the binary search
value(a, row, col) ==
    IF ~(row < num_rows(a)) THEN Panic
    ELSE IF ~(col < num_columns(a)) THEN Panic
    ELSE LET col_start == AsUsize(column_offsets(a)[col + 1])
             col_end == AsUsize(column_offsets(a)[col + 2])
         IN  IF col_start > col_end \/ col_end > Len(row_indices(a)) THEN Panic
             ELSE LET found == binary_search(SubSeq(row_indices(a), col_start + 1, col_end), row)
                  IN  IF IsSome(found)
                      THEN Returned(<<non_zero_values(a)[col_start + Unwrap(found) + 1]>>)
                      ELSE Returned(<<0>>)

\* The inner loop of mul: value = value + self.value(row, column) * x[row]
RECURSIVE mul_columns(_, _, _, _, _)
mul_columns(a, x, row, column, acc) ==
    IF column >= num_columns(a) THEN Some(acc)
    ELSE LET v == value(a, row, column)
         IN  IF v.tag = "Panic" \/ row >= Len(x) THEN None
             ELSE mul_columns(a, x, row, column + 1, acc + (v.out[1] * x[row + 1]))

RECURSIVE mul_rows(_, _, _, _)
mul_rows(a, x, row, b) ==
    IF row >= num_rows(a) THEN Returned(b)
    ELSE LET sum == mul_columns(a, x, row, 0, 0)
         IN  IF IsSome(sum) THEN mul_rows(a, x, row + 1, Append(b, Unwrap(sum)))
             ELSE Panic

\* impl Mul<&Vec<P>> for &mut CompColMatrix<P>
mul(a, x) == IF num_columns(a) # Len(x) THEN Panic ELSE mul_rows(a, x, 0, <<>>)

\* The inner loop of utils::multiply: value = value + a.value(row, column) * x[row]
RECURSIVE multiply_columns(_, _, _, _, _)
multiply_columns(a, x, row, column, acc) ==
    IF column >= num_columns(a) THEN Some(acc)
    ELSE LET v == value(a, row, column)
         IN  IF v.tag = "Panic" \/ row >= Len(x) THEN None
             ELSE multiply_columns(a, x, row, column + 1, acc + (v.out[1] * x[row + 1]))

RECURSIVE multiply_rows(_, _, _, _)
multiply_rows(a, x, row, b) ==
    IF row >= num_rows(a) THEN Returned(b)
    ELSE LET sum == multiply_columns(a, x, row, 0, 0)
         IN  IF IsSome(sum) THEN multiply_rows(a, x, row + 1, Append(b, Unwrap(sum)))
             ELSE Panic

\* utils::multiply
multiply(a, x) == IF num_columns(a) # Len(x) THEN Panic ELSE multiply_rows(a, x, 0, <<>>)

\* s is non-decreasing
NonDecreasing(s) == \A i \in 1..(Len(s) - 1) : s[i] <= s[i + 1]

\* The vectors given to from_vectors: the column offsets delimit slices of the
\* k stored entries; the row indices are arbitrary, so some columns are not
\* ascending and some row indices are out of range
ViewInputs ==
    UNION {[num_rows : 0..MaxRows,
            non_zero_vals : {ValPrefix(k)},
            row_indices : [1..k -> 0..MaxRows],
            col_offsets : {o \in SeqsUpTo(0..k, MaxCols + 1) :
                              Len(o) >= 1 /\ NonDecreasing(o) /\ o[Len(o)] = k}]
           : k \in 0..MaxViewNnz}

\* The vectors x given to mul / multiply: entries that differ by position
XInputs == {[i \in 1..k |-> i + 1] : k \in 0..(MaxCols + 1)}

NoQuery == [op |-> "none", row |-> 0, col |-> 0, x |-> <<>>]
NoAnswer == [tag |-> "none", out |-> <<>>]

VwInit ==
    /\ vw_pc = "start"
    /\ vw = NoView
    /\ vw_query = NoQuery
    /\ vw_answer = NoAnswer

\* CompColMatrix::from_vectors(num_rows, non_zero_values, row_indices, column_offsets)
FromVectors ==
    /\ vw_pc = "start"
    /\ \E raw \in ViewInputs :
          vw' = from_vectors(raw.num_rows, raw.non_zero_vals, raw.row_indices, raw.col_offsets)
    /\ vw_pc' = "made"
    /\ UNCHANGED <<vw_query, vw_answer, clVars, ccVars, smVars, svVars, fnVars>>

\* a.value(row, col)
Value ==
    /\ vw_pc = "made"
    /\ vw.tag = "Ok"
    /\ \E row \in 0..MaxRows, col \in 0..MaxCols :
          /\ vw_query' = [op |-> "value", row |-> row, col |-> col, x |-> <<>>]
          /\ vw_answer' = value(vw, row, col)
    /\ vw_pc' = "queried"
    /\ UNCHANGED <<vw, clVars, ccVars, smVars, svVars, fnVars>>

\* &mut a * &x
Mul ==
    /\ vw_pc = "made"
    /\ vw.tag = "Ok"
    /\ \E x \in XInputs :
          /\ vw_query' = [op |-> "mul", row |-> 0, col |-> 0, x |-> x]
          /\ vw_answer' = mul(vw, x)
    /\ vw_pc' = "queried"
    /\ UNCHANGED <<vw, clVars, ccVars, smVars, svVars, fnVars>>

\* multiply(&mut a, &x)
Multiply ==
    /\ vw_pc = "made"
    /\ vw.tag = "Ok"
    /\ \E x \in XInputs :
          /\ vw_query' = [op |-> "multiply", row |-> 0, col |-> 0, x |-> x]
          /\ vw_answer' = multiply(vw, x)
    /\ vw_pc' = "queried"
    /\ UNCHANGED <<vw, clVars, ccVars, smVars, svVars, fnVars>>

\* ------------------------------------------------------------------------
\* Triplet matrix (crate::sparse_matrix::SparseMat)
\* ------------------------------------------------------------------------
\* HashMap<(usize, usize), P>: a function from the stored keys to their values
EmptyMap == [k \in {} |-> 0]
MapInsert(m, k, v) == [kk \in (DOMAIN m) \cup {k} |-> IF kk = k THEN v ELSE m[kk]]
MapRemove(m, k) == [kk \in (DOMAIN m) \ {k} |-> m[kk]]
MapGet(m, k) == IF k \in DOMAIN m THEN Some(m[k]) ELSE None

\* SparseMat::empty and SparseMat::new
empty == [num_rows |-> 0, num_cols |-> 0, non_zero_vals |-> EmptyMap]
new(rows, cols) == [num_rows |-> rows, num_cols |-> cols, non_zero_vals |-> EmptyMap]

\* insert that stores every value it is given, zero included
insert_store_zero(m, row, col, val) ==
    [m EXCEPT !.non_zero_vals = MapInsert(@, <<row, col>>, val)]

\* SparseMat::insert, for indices inside the matrix (outside it panics)
insert(m, row, col, val) ==
    IF val = 0
    THEN IF <<row, col>> \in DOMAIN m.non_zero_vals
         THEN [m EXCEPT !.non_zero_vals = MapRemove(@, <<row, col>>)]
         ELSE m
    ELSE [m EXCEPT !.non_zero_vals = MapInsert(@, <<row, col>>, val)]

\* get that looks the entry up under (col, row)
get_swapped(m, row, col) ==
    LET stored == MapGet(m.non_zero_vals, <<col, row>>)
    IN  IF IsSome(stored) THEN Unwrap(stored) ELSE 0

\* SparseMat::get, for indices inside the matrix (outside it panics)
get(m, row, col) ==
    LET stored == MapGet(m.non_zero_vals, <<row, col>>)
    IN  IF IsSome(stored) THEN Unwrap(stored) ELSE 0

\* insert_unbounded that fits the matrix to the new entry without comparing
\* with the size it had
insert_unbounded_fit(m, row, col, val) ==
    IF val = 0
    THEN IF <<row, col>> \in DOMAIN m.non_zero_vals
         THEN [m EXCEPT !.non_zero_vals = MapRemove(@, <<row, col>>)]
         ELSE m
    ELSE [num_rows |-> row + 1,
          num_cols |-> col + 1,
          non_zero_vals |-> MapInsert(m.non_zero_vals, <<row, col>>, val)]

\* insert_unbounded that stores the entry without growing the matrix
insert_unbounded_no_grow(m, row, col, val) ==
    IF val = 0
    THEN IF <<row, col>> \in DOMAIN m.non_zero_vals
         THEN [m EXCEPT !.non_zero_vals = MapRemove(@, <<row, col>>)]
         ELSE m
    ELSE [m EXCEPT !.non_zero_vals = MapInsert(@, <<row, col>>, val)]

\* SparseMat::insert_unbounded
insert_unbounded(m, row, col, val) ==
    IF val = 0
    THEN IF <<row, col>> \in DOMAIN m.non_zero_vals
         THEN [m EXCEPT !.non_zero_vals = MapRemove(@, <<row, col>>)]
         ELSE m
    ELSE [num_rows |-> IF row >= m.num_rows THEN row + 1 ELSE m.num_rows,
          num_cols |-> IF col >= m.num_cols THEN col + 1 ELSE m.num_cols,
          non_zero_vals |-> MapInsert(m.non_zero_vals, <<row, col>>, val)]

\* SparseMat::num_non_zeros
num_non_zeros(m) == Cardinality(DOMAIN m.non_zero_vals)

\* SparseMat::get_unbounded
get_unbounded(m, row, col) ==
    LET stored == MapGet(m.non_zero_vals, <<row, col>>)
    IN  IF IsSome(stored) THEN Unwrap(stored) ELSE 0

\* What an operation that may panic leaves behind: the matrix and whether it
\* panicked
MatOk(m) == [tag |-> "Ok", m |-> m]
MatPanic(m) == [tag |-> "Panic", m |-> m]

\* Iterator::max_by_key over the row or column indices of the keys
MaxOf(S) == CHOOSE x \in S : \A y \in S : y <= x

\* resize_rows that sets the size without looking at the contents
resize_rows_unchecked(m, rows) == MatOk([m EXCEPT !.num_rows = rows])

\* SparseMat::resize_rows
resize_rows(m, rows) ==
    LET keys == DOMAIN m.non_zero_vals
        num_rows_actual == IF keys = {} THEN 0 ELSE MaxOf({k[1] : k \in keys}) + 1
    IN  IF rows < num_rows_actual
        THEN MatPanic(m)
        ELSE MatOk([m EXCEPT !.num_rows = rows])

\* SparseMat::resize_cols
resize_cols(m, cols) ==
    LET keys == DOMAIN m.non_zero_vals
        num_cols_actual == IF keys = {} THEN 0 ELSE MaxOf({k[2] : k \in keys}) + 1
    IN  IF cols < num_cols_actual
        THEN MatPanic(m)
        ELSE MatOk([m EXCEPT !.num_cols = cols])

\* resize that sets both sizes without looking at the contents
resize_unchecked(m, rows, cols) ==
    MatOk([m EXCEPT !.num_rows = rows, !.num_cols = cols])

\* SparseMat::resize: resize_rows, then resize_cols
resize(m, rows, cols) ==
    LET r == resize_rows(m, rows)
    IN  IF r.tag = "Panic" THEN r ELSE resize_cols(r.m, cols)

\* for ((row, col), val) in m.non_zero_vals.drain() { combined.insert_unbounded(
\* row + row_offset, col + col_offset, val) }: the keys are distinct, so the
\* order in which the map yields them does not change the result
RECURSIVE drain_into(_, _, _, _)
drain_into(combined, vals, row_offset, col_offset) ==
    IF DOMAIN vals = {} THEN combined
    ELSE LET k == CHOOSE key \in DOMAIN vals : TRUE
         IN  drain_into(insert_unbounded(combined, k[1] + row_offset,
                                         k[2] + col_offset, vals[k]),
                        MapRemove(vals, k), row_offset, col_offset)

\* The loop of concat_cols without the final resize_cols of each round
RECURSIVE concat_cols_from_unpadded(_, _, _, _)
concat_cols_from_unpadded(combined, nrows, matrices, i) ==
    IF i > Len(matrices) THEN MatOk(combined)
    ELSE LET m == matrices[i]
         IN  IF nrows # m.num_rows THEN MatPanic(combined)
             ELSE concat_cols_from_unpadded(
                      drain_into(combined, m.non_zero_vals, 0, combined.num_cols),
                      nrows, matrices, i + 1)

\* The loop of concat_cols over matrices[i..]
RECURSIVE concat_cols_from(_, _, _, _)
concat_cols_from(combined, nrows, matrices, i) ==
    IF i > Len(matrices) THEN MatOk(combined)
    ELSE LET m == matrices[i]
         IN  IF nrows # m.num_rows THEN MatPanic(combined)
             ELSE LET col_offset == combined.num_cols
                      r == resize_cols(drain_into(combined, m.non_zero_vals,
                                                  0, col_offset),
                                       col_offset + m.num_cols)
                  IN  IF r.tag = "Panic" THEN r
                      ELSE concat_cols_from(r.m, nrows, matrices, i + 1)

\* SparseMat::concat_cols: matrices.remove(0) panics on an empty list
concat_cols(matrices) ==
    IF Len(matrices) = 0 THEN MatPanic(empty)
    ELSE concat_cols_from(matrices[1], matrices[1].num_rows, matrices, 2)

\* The loop of concat_rows that inserts every entry at the row it had
RECURSIVE concat_rows_from_no_offset(_, _, _, _)
concat_rows_from_no_offset(combined, ncols, matrices, i) ==
    IF i > Len(matrices) THEN MatOk(combined)
    ELSE LET m == matrices[i]
         IN  IF ncols # m.num_cols THEN MatPanic(combined)
             ELSE LET row_offset == combined.num_rows
                      r == resize_rows(drain_into(combined, m.non_zero_vals, 0, 0),
                                       row_offset + m.num_rows)
                  IN  IF r.tag = "Panic" THEN r
                      ELSE concat_rows_from_no_offset(r.m, ncols, matrices, i + 1)

\* The loop of concat_rows over matrices[i..]
RECURSIVE concat_rows_from(_, _, _, _)
concat_rows_from(combined, ncols, matrices, i) ==
    IF i > Len(matrices) THEN MatOk(combined)
    ELSE LET m == matrices[i]
         IN  IF ncols # m.num_cols THEN MatPanic(combined)
             ELSE LET row_offset == combined.num_rows
                      r == resize_rows(drain_into(combined, m.non_zero_vals,
                                                  row_offset, 0),
                                       row_offset + m.num_rows)
                  IN  IF r.tag = "Panic" THEN r
                      ELSE concat_rows_from(r.m, ncols, matrices, i + 1)

\* SparseMat::concat_rows
concat_rows(matrices) ==
    IF Len(matrices) = 0 THEN MatPanic(empty)
    ELSE concat_rows_from(matrices[1], matrices[1].num_cols, matrices, 2)

\* The loop of concat: each row of blocks goes through concat_cols
RECURSIVE concat_from(_, _, _)
concat_from(matrices, i, combined_rows) ==
    IF i > Len(matrices) THEN concat_rows(combined_rows)
    ELSE LET a == concat_cols(matrices[i])
         IN  IF a.tag = "Panic" THEN a
             ELSE concat_from(matrices, i + 1, Append(combined_rows, a.m))

\* SparseMat::concat
concat(matrices) == concat_from(matrices, 1, <<>>)

\* transpose that swaps the dimensions and leaves the keys as they are
transpose_dims_only(m) ==
    [num_rows |-> m.num_cols, num_cols |-> m.num_rows, non_zero_vals |-> m.non_zero_vals]

\* SparseMat::transpose
transpose(m) ==
    [num_rows |-> m.num_cols,
     num_cols |-> m.num_rows,
     non_zero_vals |-> [k \in {<<j[2], j[1]>> : j \in DOMAIN m.non_zero_vals} |->
                           m.non_zero_vals[<<k[2], k[1]>>]]]

\* The key of ks that comes first in (column, row) order
FirstKey(ks) ==
    CHOOSE k \in ks : \A o \in ks : k[2] < o[2] \/ (k[2] = o[2] /\ k[1] <= o[1])

\* The keys sorted by (column, row)
RECURSIVE sorted_keys(_)
sorted_keys(ks) ==
    IF ks = {} THEN <<>>
    ELSE <<FirstKey(ks)>> \o sorted_keys(ks \ {FirstKey(ks)})

\* The offsets emitted for columns col, col + 1, ..: each column adds its
\* number of entries to the running count, an empty column repeats it
RECURSIVE emit_offsets(_, _, _, _)
emit_offsets(ks, num_cols, col, count) ==
    IF col >= num_cols THEN <<count>>
    ELSE <<count>> \o emit_offsets(ks, num_cols, col + 1,
                                   count + Cardinality({k \in ks : k[2] = col}))

\* The conversion of a triplet matrix to compressed-column form: the entries
\* sorted by (column, row), one offset per column and a final one, handed to
\* CompColMatrix::from_vectors
compressed_column_format(m) ==
    LET keys == sorted_keys(DOMAIN m.non_zero_vals)
    IN  from_vectors(m.num_rows,
                     [i \in 1..Len(keys) |-> m.non_zero_vals[keys[i]]],
                     [i \in 1..Len(keys) |-> keys[i][1]],
                     emit_offsets(DOMAIN m.non_zero_vals, m.num_cols, 0, 0))

\* The values a caller inserts: zero and two non-zero values
InsertVals == {0, 5, 7}

\* Storing val at key keeps the matrix within MaxEntries entries
FitsEntries(m, key, val) ==
    val = 0 \/ key \in DOMAIN m.non_zero_vals \/ num_non_zeros(m) < MaxEntries

SmInit ==
    /\ sm_pc = "init"
    /\ sm = empty
    /\ sm_ccf = NoView
    /\ sm_query = NoQuery
    /\ sm_answer = NoAnswer

\* SparseMat::empty()
Empty ==
    /\ sm_pc = "init"
    /\ sm' = empty
    /\ sm_pc' = "building"
    /\ sm_query' = [NoQuery EXCEPT !.op = "empty"]
    /\ UNCHANGED <<sm_ccf, sm_answer, clVars, ccVars, vwVars, svVars, fnVars>>

\* SparseMat::new(num_rows, num_cols)
New ==
    /\ sm_pc = "init"
    /\ \E rows \in 0..MaxDim, cols \in 0..MaxDim :
          /\ sm' = new(rows, cols)
          /\ sm_query' = [op |-> "new", row |-> rows, col |-> cols, x |-> <<>>]
    /\ sm_pc' = "building"
    /\ UNCHANGED <<sm_ccf, sm_answer, clVars, ccVars, vwVars, svVars, fnVars>>

\* a.insert(row, col, val) without the check of the index against the size
Insert_unchecked ==
    /\ sm_pc = "building"
    /\ \E row \in 0..MaxDim, col \in 0..MaxDim, val \in InsertVals :
          /\ FitsEntries(sm, <<row, col>>, val)
          /\ sm_query' = [op |-> "insert", row |-> row, col |-> col, x |-> <<val>>]
          /\ sm' = insert(sm, row, col, val)
          /\ sm_answer' = Returned(<<>>)
    /\ UNCHANGED <<sm_pc, sm_ccf, clVars, ccVars, vwVars, svVars, fnVars>>

\* a.insert(row, col, val): panics, leaving the matrix as it was, when the
\* index is outside the matrix
Insert ==
    /\ sm_pc = "building"
    /\ \E row \in 0..MaxDim, col \in 0..MaxDim, val \in InsertVals :
          /\ FitsEntries(sm, <<row, col>>, val)
          /\ sm_query' = [op |-> "insert", row |-> row, col |-> col, x |-> <<val>>]
          /\ IF row >= sm.num_rows \/ col >= sm.num_cols
             THEN sm' = sm /\ sm_answer' = Panic
             ELSE sm' = insert(sm, row, col, val) /\ sm_answer' = Returned(<<>>)
    /\ UNCHANGED <<sm_pc, sm_ccf, clVars, ccVars, vwVars, svVars, fnVars>>

\* a.insert_unbounded(row, col, val)
InsertUnbounded ==
    /\ sm_pc = "building"
    /\ \E row \in 0..(MaxDim - 1), col \in 0..(MaxDim - 1), val \in InsertVals :
          /\ FitsEntries(sm, <<row, col>>, val)
          /\ sm_query' = [op |-> "insert_unbounded", row |-> row, col |-> col, x |-> <<val>>]
          /\ sm' = insert_unbounded(sm, row, col, val)
          /\ sm_answer' = Returned(<<>>)
    /\ UNCHANGED <<sm_pc, sm_ccf, clVars, ccVars, vwVars, svVars, fnVars>>

\* a.get(row, col): panics when the index is outside the matrix
Get ==
    /\ sm_pc = "building"
    /\ \E row \in 0..MaxDim, col \in 0..MaxDim :
          /\ sm_query' = [op |-> "get", row |-> row, col |-> col, x |-> <<>>]
          /\ sm_answer' = IF row >= sm.num_rows \/ col >= sm.num_cols
                          THEN Panic
                          ELSE Returned(<<get(sm, row, col)>>)
    /\ UNCHANGED <<sm, sm_pc, sm_ccf, clVars, ccVars, vwVars, svVars, fnVars>>

\* a.get_unbounded(row, col): never panics
GetUnbounded ==
    /\ sm_pc = "building"
    /\ \E row \in 0..MaxDim, col \in 0..MaxDim :
          /\ sm_query' = [op |-> "get_unbounded", row |-> row, col |-> col, x |-> <<>>]
          /\ sm_answer' = Returned(<<get_unbounded(sm, row, col)>>)
    /\ UNCHANGED <<sm, sm_pc, sm_ccf, clVars, ccVars, vwVars, svVars, fnVars>>

\* The second operand of a concatenation: an empty matrix of up to one row
\* and one column, or the 1 x 1 matrix holding 7
OperandMats == {new(r, c) : r \in 0..1, c \in 0..1} \cup {insert(new(1, 1), 0, 0, 7)}

\* The result of a concatenation stays within the bounds of the model
FitsMatrix(r) ==
    r.tag = "Ok" => /\ r.m.num_rows <= MaxDim
                    /\ r.m.num_cols <= MaxDim
                    /\ num_non_zeros(r.m) <= MaxEntries

\* a.resize(num_rows, num_cols): a panic in resize_cols leaves the rows resized
Resize ==
    /\ sm_pc = "building"
    /\ \E rows \in 0..MaxDim, cols \in 0..MaxDim :
          LET r == resize(sm, rows, cols)
          IN  /\ sm' = r.m
              /\ sm_query' = [op |-> "resize", row |-> rows, col |-> cols, x |-> <<>>]
              /\ sm_answer' = IF r.tag = "Panic" THEN Panic ELSE Returned(<<>>)
    /\ UNCHANGED <<sm_pc, sm_ccf, clVars, ccVars, vwVars, svVars, fnVars>>

\* a.resize_rows(num_rows)
ResizeRows ==
    /\ sm_pc = "building"
    /\ \E rows \in 0..MaxDim :
          LET r == resize_rows(sm, rows)
          IN  /\ sm' = r.m
              /\ sm_query' = [op |-> "resize_rows", row |-> rows, col |-> 0, x |-> <<>>]
              /\ sm_answer' = IF r.tag = "Panic" THEN Panic ELSE Returned(<<>>)
    /\ UNCHANGED <<sm_pc, sm_ccf, clVars, ccVars, vwVars, svVars, fnVars>>

\* a.resize_cols(num_cols)
ResizeCols ==
    /\ sm_pc = "building"
    /\ \E cols \in 0..MaxDim :
          LET r == resize_cols(sm, cols)
          IN  /\ sm' = r.m
              /\ sm_query' = [op |-> "resize_cols", row |-> 0, col |-> cols, x |-> <<>>]
              /\ sm_answer' = IF r.tag = "Panic" THEN Panic ELSE Returned(<<>>)
    /\ UNCHANGED <<sm_pc, sm_ccf, clVars, ccVars, vwVars, svVars, fnVars>>

\* a = SparseMat::concat_cols(vec![a.clone(), other]), or with other first; a
\* panic leaves a as it was
ConcatCols ==
    /\ sm_pc = "building"
    /\ \E other \in OperandMats, first \in BOOLEAN :
          LET r == concat_cols(IF first THEN <<sm, other>> ELSE <<other, sm>>)
          IN  /\ FitsMatrix(r)
              /\ sm' = IF r.tag = "Panic" THEN sm ELSE r.m
              /\ sm_query' = [NoQuery EXCEPT !.op = "concat_cols"]
              /\ sm_answer' = IF r.tag = "Panic" THEN Panic ELSE Returned(<<>>)
    /\ UNCHANGED <<sm_pc, sm_ccf, clVars, ccVars, vwVars, svVars, fnVars>>

\* a = SparseMat::concat_rows(vec![a.clone(), other]), or with other first
ConcatRows ==
    /\ sm_pc = "building"
    /\ \E other \in OperandMats, first \in BOOLEAN :
          LET r == concat_rows(IF first THEN <<sm, other>> ELSE <<other, sm>>)
          IN  /\ FitsMatrix(r)
              /\ sm' = IF r.tag = "Panic" THEN sm ELSE r.m
              /\ sm_query' = [NoQuery EXCEPT !.op = "concat_rows"]
              /\ sm_answer' = IF r.tag = "Panic" THEN Panic ELSE Returned(<<>>)
    /\ UNCHANGED <<sm_pc, sm_ccf, clVars, ccVars, vwVars, svVars, fnVars>>

\* a = SparseMat::concat(vec![vec![a.clone(), other]]), one row of two blocks,
\* or SparseMat::concat(vec![vec![a.clone()], vec![other]]), two rows of one
Concat ==
    /\ sm_pc = "building"
    /\ \E other \in OperandMats, one_row \in BOOLEAN :
          LET r == concat(IF one_row THEN << <<sm, other>> >>
                                     ELSE << <<sm>>, <<other>> >>)
          IN  /\ FitsMatrix(r)
              /\ sm' = IF r.tag = "Panic" THEN sm ELSE r.m
              /\ sm_query' = [NoQuery EXCEPT !.op = "concat"]
              /\ sm_answer' = IF r.tag = "Panic" THEN Panic ELSE Returned(<<>>)
    /\ UNCHANGED <<sm_pc, sm_ccf, clVars, ccVars, vwVars, svVars, fnVars>>

\* a = a.transpose()
Transpose ==
    /\ sm_pc = "building"
    /\ sm' = transpose(sm)
    /\ sm_query' = [NoQuery EXCEPT !.op = "transpose"]
    /\ sm_answer' = Returned(<<>>)
    /\ UNCHANGED <<sm_pc, sm_ccf, clVars, ccVars, vwVars, svVars, fnVars>>

\* a.compressed_column_format()
CompressedColumnFormat ==
    /\ sm_pc = "building"
    /\ sm_ccf' = compressed_column_format(sm)
    /\ sm_query' = [NoQuery EXCEPT !.op = "compressed_column_format"]
    /\ sm_answer' = NoAnswer
    /\ sm_pc' = "converted"
    /\ UNCHANGED <<sm, clVars, ccVars, vwVars, svVars, fnVars>>

\* ------------------------------------------------------------------------
\* Constructors that take their arguments and return a value
\* ------------------------------------------------------------------------
\* What a call returned: a value, an error, or nothing because it panicked
FnOk(v) == [tag |-> "Ok", value |-> v]
FnErr(e) == [tag |-> "Err", value |-> e]
FnPanic == [tag |-> "Panic", value |-> <<>>]
FnReturn(r) == IF r.tag = "Panic" THEN FnPanic ELSE FnOk(r.m)

NoFnCall == [op |-> "none", args |-> <<>>]
NoFnResult == [tag |-> "none", value |-> <<>>]

FnInit ==
    /\ fn_call = NoFnCall
    /\ fn_result = NoFnResult

\* A triplet matrix as new(rows, cols) followed by an insert per entry leaves it
Mat(rows, cols, vals) == [num_rows |-> rows, num_cols |-> cols, non_zero_vals |-> vals]

\* The matrices given to concat_cols and concat_rows: one, two or no rows and
\* columns, without entries, with an empty first or last row or column
BlockMats ==
    {new(1, 1), new(2, 1), new(0, 1),
     Mat(1, 1, <<0, 0>> :> 7),
     Mat(1, 2, <<0, 0>> :> 5),
     Mat(1, 2, <<0, 1>> :> 7),
     Mat(2, 1, <<1, 0>> :> 5),
     Mat(2, 2, (<<0, 1>> :> 5) @@ (<<1, 0>> :> 7))}

\* The blocks of the grids given to concat
GridMats ==
    {Mat(1, 1, <<0, 0>> :> 7),
     Mat(1, 2, <<0, 0>> :> 5),
     Mat(2, 1, <<1, 0>> :> 7)}

\* All sequences over S of length 1 .. n
ListsOf(S, n) == UNION {[1..k -> S] : k \in 1..n}

\* Every triplet matrix of up to MaxDim rows and columns that holds up to
\* MaxEntries of the non-zero values a caller inserts
AllMats ==
    UNION {{Mat(rows, cols, vals) :
               vals \in UNION {[K -> InsertVals \ {0}] :
                                  K \in {S \in SUBSET ((0..(rows - 1)) \X (0..(cols - 1))) :
                                            Cardinality(S) <= MaxEntries}}} :
           rows \in 0..MaxDim, cols \in 0..MaxDim}

\* SparseMat::concat_cols(matrices)
ConcatColsCall ==
    /\ fn_call = NoFnCall
    /\ \E matrices \in ListsOf(BlockMats, MaxBlocks) :
          /\ fn_call' = [op |-> "concat_cols", args |-> matrices]
          /\ fn_result' = FnReturn(concat_cols(matrices))
    /\ UNCHANGED <<clVars, ccVars, vwVars, smVars, svVars>>

\* SparseMat::concat_rows(matrices)
ConcatRowsCall ==
    /\ fn_call = NoFnCall
    /\ \E matrices \in ListsOf(BlockMats, MaxBlocks) :
          /\ fn_call' = [op |-> "concat_rows", args |-> matrices]
          /\ fn_result' = FnReturn(concat_rows(matrices))
    /\ UNCHANGED <<clVars, ccVars, vwVars, smVars, svVars>>

\* SparseMat::concat(matrices)
ConcatCall ==
    /\ fn_call = NoFnCall
    /\ \E matrices \in ListsOf(ListsOf(GridMats, MaxGridCols), MaxGridRows) :
          /\ fn_call' = [op |-> "concat", args |-> matrices]
          /\ fn_result' = FnReturn(concat(matrices))
    /\ UNCHANGED <<clVars, ccVars, vwVars, smVars, svVars>>

\* a.transpose(): takes &self, so a stays what it was
TransposeCall ==
    /\ fn_call = NoFnCall
    /\ \E a \in AllMats :
          /\ fn_call' = [op |-> "transpose", args |-> <<a>>]
          /\ fn_result' = FnOk(transpose(a))
    /\ UNCHANGED <<clVars, ccVars, vwVars, smVars, svVars>>

\* A usize of 64 bits as two words <<hi, lo>>, standing for hi * 2^32 + lo:
\* the model's own integers end at 2^31 - 1
Usize(n) == <<0, n>>
TwoTo32 == <<1, 0>>

\* a * b for two usize: the product of two numbers of at least 2^32 does not
\* fit 64 bits, and then a build with overflow checks panics and a build
\* without them keeps the low 64 bits.  The words of the model's inputs are
\* small, so no word carries into the next.
usize_mul(a, b, overflow_checks) ==
    IF a[1] * b[1] > 0 /\ overflow_checks
    THEN None
    ELSE Some(<<a[1] * b[2] + a[2] * b[1], a[2] * b[2]>>)

\* `n as i32` for a usize: the low 32 bits
usize_as_i32(n) == n[2]

\* check_dense_conditions
check_dense_conditions(n_rows, n_cols, column_major_values, overflow_checks) ==
    LET product == usize_mul(n_rows, n_cols, overflow_checks)
    IN  IF ~IsSome(product) THEN "Panic"
        ELSE IF Usize(Len(column_major_values)) # Unwrap(product)
        THEN "DenseMatrixError"
        ELSE "Ok"

\* CCreateDenseMat::c_create_dense_matrix: *Create_Dense_Matrix fills the
\* header with the two sizes cast to i32 and keeps the pointer to the values
c_create_dense_matrix(n_rows, n_cols, column_major_values, overflow_checks) ==
    LET checked == check_dense_conditions(n_rows, n_cols, column_major_values,
                                          overflow_checks)
    IN  IF checked = "Panic" THEN FnPanic
        ELSE IF checked # "Ok" THEN FnErr(checked)
        ELSE FnOk([nrow |-> usize_as_i32(n_rows),
                   ncol |-> usize_as_i32(n_cols),
                   lda |-> usize_as_i32(n_rows),
                   nzval |-> column_major_values])

\* The sizes asked of a dense matrix: small ones, 2^32 and 2^32 + 1
DenseDims == {Usize(n) : n \in 0..MaxDenseDim} \cup {TwoTo32, <<1, 1>>}

\* f64::c_create_dense_matrix(n_rows, n_cols, &column_major_values), in a
\* build with or without overflow checks
CreateDenseMatrix ==
    /\ fn_call = NoFnCall
    /\ \E n_rows \in DenseDims, n_cols \in DenseDims, k \in 0..MaxDenseLen,
          overflow_checks \in BOOLEAN :
          /\ fn_call' = [op |-> "c_create_dense_matrix",
                          args |-> <<n_rows, n_cols, ValPrefix(k)>>]
          /\ fn_result' = c_create_dense_matrix(n_rows, n_cols, ValPrefix(k),
                                                 overflow_checks)
    /\ UNCHANGED <<clVars, ccVars, vwVars, smVars, svVars>>

\* The header of a factor: CSuperMatrix::num_rows / num_columns
Factors == [nrow : 0..MaxFactorDim, ncol : 0..MaxFactorDim]

\* LUDecomp::from_matrices(l, u) of lu_decomp.rs: two assertions, then Self { l, u }
LUDecomp_from_matrices(l, u) ==
    IF l.nrow # u.nrow THEN FnPanic
    ELSE IF l.ncol # u.ncol THEN FnPanic
    ELSE FnOk([l |-> l, u |-> u])

\* LUDecomp::from_matrices(l, u)
LUDecompFromMatrices ==
    /\ fn_call = NoFnCall
    /\ \E l \in Factors, u \in Factors :
          /\ fn_call' = [op |-> "LUDecomp::from_matrices", args |-> <<l, u>>]
          /\ fn_result' = LUDecomp_from_matrices(l, u)
    /\ UNCHANGED <<clVars, ccVars, vwVars, smVars, svVars>>

\* c::simple_driver::LUDecomp::new(l, u)
LUDecompNew ==
    /\ fn_call = NoFnCall
    /\ \E l \in Factors, u \in Factors :
          /\ fn_call' = [op |-> "LUDecomp::new", args |-> <<l, u>>]
          /\ fn_result' = FnOk(LUDecomp_new(l, u))
    /\ UNCHANGED <<clVars, ccVars, vwVars, smVars, svVars>>

\* ------------------------------------------------------------------------
\* Specifications
\* ------------------------------------------------------------------------
Init == ClInit /\ CcInit /\ VwInit /\ SmInit /\ SvInit /\ FnInit

\* The outcome classifier
ClNext == SimpleDriverClassify \/ CSimpleDriverClassify
SpecClassify == Init /\ [][ClNext]_vars

\* The compressed-column matrix made from raw vectors and taken apart again
CcNext == FromRaw \/ ToRaw \/ FromRawAgain \/ DropMat \/ DropRaw
SpecCompCol == Init /\ [][CcNext]_vars

\* The compressed-column view and its lookups
VwNext == FromVectors \/ Value \/ Mul \/ Multiply
SpecView == Init /\ [][VwNext]_vars

\* The triplet matrix and its conversion
SmNext == Empty \/ New \/ Insert \/ InsertUnbounded \/ Get \/ CompressedColumnFormat
SpecTriplet == Init /\ [][SmNext]_vars

\* The triplet matrix under every operation that changes it
SmOpsNext ==
    \/ Empty \/ New \/ Insert \/ InsertUnbounded
    \/ Resize \/ ResizeRows \/ ResizeCols
    \/ ConcatCols \/ ConcatRows \/ Concat \/ Transpose
SpecTripletOps == Init /\ [][SmOpsNext]_vars

\* The triplet matrix under its checked and unchecked index operations
SmIndexNext == Empty \/ New \/ Insert \/ Get \/ GetUnbounded
SpecTripletIndex == Init /\ [][SmIndexNext]_vars

\* The triplet matrix filled by insert_unbounded and resized
SmResizeNext == Empty \/ New \/ InsertUnbounded \/ Resize \/ ResizeRows \/ ResizeCols
SpecTripletResize == Init /\ [][SmResizeNext]_vars

\* The concatenations and the transposition of triplet matrices
CatNext == ConcatColsCall \/ ConcatRowsCall \/ ConcatCall \/ TransposeCall
SpecConcat == Init /\ [][CatNext]_vars

\* The dense matrix and the factorization result made from their parts
MkNext == CreateDenseMatrix \/ LUDecompFromMatrices \/ LUDecompNew
SpecConstruct == Init /\ [][MkNext]_vars

\* The solver options and the solve entry points
SvNext ==
    \/ OptionsNew \/ SetSuperluColumnPerm \/ SetUserColumnPerm
    \/ SetDiagonallyDominant \/ SetDiagonalPivotThreshold
    \/ SimpleDriverSolve \/ CSimpleDriverSolve
    \/ SimpleSystemSolve \/ SamePatternSolve \/ SimilarValuesSolve
SpecSolve == Init /\ [][SvNext]_vars

Next == ClNext \/ CcNext \/ VwNext \/ SmNext \/ SmOpsNext \/ SmIndexNext \/ SmResizeNext \/ CatNext \/ MkNext \/ SvNext
Spec == Init /\ [][Next]_vars

\* ------------------------------------------------------------------------
\* What the claims speak about
\* ------------------------------------------------------------------------
\* The positions in row_indices / non_zero_vals that column col covers,
\* [column_offsets[col], column_offsets[col + 1]), as 1-based indices
ColumnSlice(colptr, col) == (colptr[col + 1] + 1) .. colptr[col + 2]

\* Every column covers a range of the nnz stored entries
ValidSlices(colptr, nnz) ==
    \A col \in 0..(Len(colptr) - 2) :
        0 <= colptr[col + 1] /\ colptr[col + 1] <= colptr[col + 2] /\ colptr[col + 2] <= nnz

\* The row indices are strictly ascending within each column's slice
AscendingRows(colptr, rowind) ==
    /\ ValidSlices(colptr, Len(rowind))
    /\ \A col \in 0..(Len(colptr) - 2) :
          \A i \in ColumnSlice(colptr, col), j \in ColumnSlice(colptr, col) :
              i < j => rowind[i] < rowind[j]

\* Every row index lies in [0, nrow)
RowsInRange(rowind, nrow) == \A i \in 1..Len(rowind) : 0 <= rowind[i] /\ rowind[i] < nrow

\* The invariants of the data model of a compressed-column view
DataModelInvariants(nrow, rowind, colptr) ==
    /\ Len(colptr) >= 1
    /\ colptr[1] = 0
    /\ NonDecreasing(colptr)
    /\ RowsInRange(rowind, nrow)
    /\ AscendingRows(colptr, rowind)

\* The three length conditions of the construction
LengthConditions(vals, rowind, colptr) ==
    /\ Len(colptr) >= 1
    /\ Len(vals) = Len(rowind)
    /\ colptr[Len(colptr)] = Len(vals)

\* The entry A[row, col] of the matrix a view stands for: the stored value
\* whose row index is row inside the slice of column col, zero without one
Entry(a, row, col) ==
    LET hits == {i \in ColumnSlice(a.colptr, col) : a.rowind[i] = row}
    IN  IF hits = {} THEN 0 ELSE a.nzval[CHOOSE i \in hits : TRUE]

\* sum over the columns c >= col of A[row, c] * x[c]
RECURSIVE DotFrom(_, _, _, _)
DotFrom(a, x, row, col) ==
    IF col >= a.ncol THEN 0
    ELSE (Entry(a, row, col) * x[col + 1]) + DotFrom(a, x, row, col + 1)

\* The view satisfies the data model
WellFormedView(a) ==
    a.tag = "Ok" /\ DataModelInvariants(a.nrow, a.rowind, a.colptr)

\* ------------------------------------------------------------------------
\* Claims
\* ------------------------------------------------------------------------

C4_LengthErrorsReturned ==
    cc_pc = "made" =>
        /\ cc_mat.tag # "Panic"
        /\ IF LengthConditions(cc_raw.non_zero_vals, cc_raw.row_indices, cc_raw.col_offsets)
           THEN /\ cc_mat.tag = "Ok"
                /\ CSuperMatrix_num_cols(cc_mat.super_matrix) = Len(cc_raw.col_offsets) - 1
                /\ cc_mat.non_zero_vals = cc_raw.non_zero_vals
                /\ cc_mat.row_indices = cc_raw.row_indices
                /\ cc_mat.col_offsets = cc_raw.col_offsets
           ELSE cc_mat.tag = "Err"

\* C5 as stated: every view accepted by construction from raw vectors
\* satisfies the invariants of the data model (first offset 0, offsets
\* non-decreasing, row indices in [0, num_rows) and strictly ascending within
\* each column), so raw vectors that violate one of them are rejected.
C5_AcceptedSatisfiesDataModel ==
    (cc_pc = "made" /\ cc_mat.tag = "Ok") =>
        DataModelInvariants(cc_raw.num_rows, cc_raw.row_indices, cc_raw.col_offsets)

\* C5 amended: every view accepted by construction from raw vectors satisfies
\* the three length conditions, with num_cols = column_offsets.length - 1 and
\* column_offsets[num_cols] equal to the number of values; the first offset,
\* the order of the offsets and the range and order of the row indices are
\* not examined.
C5_AcceptedSatisfiesLengths ==
    (cc_pc = "made" /\ cc_mat.tag = "Ok") =>
        /\ LengthConditions(cc_mat.non_zero_vals, cc_mat.row_indices, cc_mat.col_offsets)
        /\ CSuperMatrix_num_cols(cc_mat.super_matrix) = Len(cc_mat.col_offsets) - 1
        /\ cc_mat.col_offsets[CSuperMatrix_num_cols(cc_mat.super_matrix) + 1]
              = Len(cc_mat.non_zero_vals)
        /\ cc_mat.super_matrix.nnz = Len(cc_mat.row_indices)

\* C5 witness: an accepted matrix with stored entries that breaks the data model
C5_Witness ==
    /\ cc_pc = "made"
    /\ cc_mat.tag = "Ok"
    /\ Len(cc_mat.non_zero_vals) >= 2
    /\ Len(cc_mat.col_offsets) >= 3
    /\ ~DataModelInvariants(cc_raw.num_rows, cc_raw.row_indices, cc_raw.col_offsets)

\* C6: multiply(A, x) with x.len = A.num_columns returns b of length
\* A.num_rows with b[r] = sum over c of A[r, c] * x[c]; it fails when
\* x.len differs from A.num_columns.
C6_MultiplyIsMatVec ==
    (vw_pc = "queried" /\ vw_query.op \in {"mul", "multiply"} /\ WellFormedView(vw)) =>
        IF Len(vw_query.x) = num_columns(vw)
        THEN /\ vw_answer.tag = "Ok"
             /\ Len(vw_answer.out) = num_rows(vw)
             /\ \A r \in 0..(num_rows(vw) - 1) :
                   vw_answer.out[r + 1] = DotFrom(vw, vw_query.x, r, 0)
        ELSE vw_answer.tag = "Panic"

\* C7: on a view whose row indices are strictly ascending within each column
\* (each column covering a slice of the stored entries), value(row, col)
\* with row < num_rows and col < num_columns returns the
\* stored value whose row index is row inside the column's slice and zero
\* when the slice has none; a row or col out of range fails.
C7_ValueLooksUpEntry ==
    (vw_pc = "queried" /\ vw_query.op = "value" /\ AscendingRows(vw.colptr, vw.rowind)) =>
        IF vw_query.row < num_rows(vw) /\ vw_query.col < num_columns(vw)
        THEN vw_answer = Returned(<<Entry(vw, vw_query.row, vw_query.col)>>)
        ELSE vw_answer = Panic

\* C7 witness: a lookup that found the last entry of a column that is not the
\* first column and holds at least two entries
C7_Witness ==
    /\ vw_pc = "queried"
    /\ vw_query.op = "value"
    /\ AscendingRows(vw.colptr, vw.rowind)
    /\ vw_query.row < num_rows(vw)
    /\ vw_query.col >= 1 /\ vw_query.col < num_columns(vw)
    /\ vw.colptr[vw_query.col + 1] >= 1
    /\ vw.colptr[vw_query.col + 2] - vw.colptr[vw_query.col + 1] >= 2
    /\ vw.rowind[vw.colptr[vw_query.col + 2]] = vw_query.row
    /\ vw_answer = Returned(<<vw.nzval[vw.colptr[vw_query.col + 2]]>>)

\* C8: for every view built by from_raw(raw), to_raw() returns exactly raw, and
\* from_raw of that result succeeds again with the same num_rows and num_cols.
C8_RawRoundTrip ==
    /\ cc_pc \in {"raw", "remade"} => cc_back = cc_raw
    /\ cc_pc = "remade" =>
          /\ cc_mat.tag = "Ok"
          /\ CSuperMatrix_num_rows(cc_mat.super_matrix) = cc_raw.num_rows
          /\ CSuperMatrix_num_cols(cc_mat.super_matrix) = Len(cc_raw.col_offsets) - 1
          /\ to_raw(cc_mat) = cc_raw

\* C8 witness: a matrix with more rows than columns and stored entries went
\* through to_raw and from_raw again
C8_Witness ==
    /\ cc_pc = "remade"
    /\ cc_mat.tag = "Ok"
    /\ Len(cc_raw.non_zero_vals) >= 2
    /\ cc_raw.num_rows > Len(cc_raw.col_offsets) - 1

\* C9: for every triplet matrix M the converted view has the same num_rows and
\* num_cols and value(r, c) = M.get(r, c) for every r < num_rows and
\* c < num_cols, zero for the absent keys.
C9_ConversionKeepsValues ==
    sm_pc = "converted" =>
        /\ sm_ccf.tag = "Ok"
        /\ num_rows(sm_ccf) = sm.num_rows
        /\ num_columns(sm_ccf) = sm.num_cols
        /\ \A r \in 0..(sm.num_rows - 1), c \in 0..(sm.num_cols - 1) :
              value(sm_ccf, r, c) = Returned(<<get(sm, r, c)>>)

\* C9 witness: a converted matrix with two entries in one column, one entry in
\* another and an absent key
C9_Witness ==
    /\ sm_pc = "converted"
    /\ sm_ccf.tag = "Ok"
    /\ num_non_zeros(sm) >= 3
    /\ \E c \in 0..(sm.num_cols - 1) :
          Cardinality({k \in DOMAIN sm.non_zero_vals : k[2] = c}) >= 2
    /\ \E r \in 0..(sm.num_rows - 1), c \in 0..(sm.num_cols - 1) :
          <<r, c>> \notin DOMAIN sm.non_zero_vals

\* C10: for every view produced by converting a triplet matrix, column_offsets
\* has length num_cols + 1, is non-decreasing and ends with the number of
\* values, and a column without entries (leading or trailing ones included)
\* repeats the previous offset.
C10_ConversionOffsets ==
    sm_pc = "converted" =>
        /\ sm_ccf.tag = "Ok"
        /\ Len(column_offsets(sm_ccf)) = sm.num_cols + 1
        /\ Len(sm_ccf.colptr) = sm.num_cols + 1
        /\ NonDecreasing(sm_ccf.colptr)
        /\ sm_ccf.colptr[sm.num_cols + 1] = Len(non_zero_values(sm_ccf))
        /\ Len(sm_ccf.nzval) = num_non_zeros(sm)
        /\ \A c \in 0..(sm.num_cols - 1) :
              (\A k \in DOMAIN sm.non_zero_vals : k[2] # c)
                  => sm_ccf.colptr[c + 2] = sm_ccf.colptr[c + 1]

\* C10 witness: a converted matrix whose first column is empty and whose
\* second column holds entries
C10_Witness ==
    /\ sm_pc = "converted"
    /\ sm_ccf.tag = "Ok"
    /\ sm.num_cols >= 2
    /\ \A k \in DOMAIN sm.non_zero_vals : k[2] # 0
    /\ \E k \in DOMAIN sm.non_zero_vals : k[2] = 1
    /\ sm_ccf.colptr[1] = 0 /\ sm_ccf.colptr[2] = 0 /\ sm_ccf.colptr[3] >= 1

\* The first (and, where the entry point is right, only) call of the solver
FirstCall == sv_solver[1]

\* The caller supplied a column-permutation hint
HintSupplied ==
    \/ sv_call.entry \in {"simple_driver", "c_simple_driver"} /\ IsSome(sv_call.perm_c)
    \/ sv_call.entry \in {"SamePattern", "SimilarValues"}

\* C11: every solve variant checks A.num_rows == B.num_rows before the
\* external solver is invoked; when the two differ the solver is never
\* called and the caller gets a typed error.
C11_DimensionsCheckedFirst ==
    (sv_pc = "done" /\ sv_call.a.nrow # sv_call.b.nrow) =>
        /\ sv_solver = <<>>
        /\ sv_result.tag = "Err"
        /\ IsSome(sv_result.error)

\* C12: when the caller supplies a column-permutation hint p (perm_c =
\* Some(p) in simple_driver / c_simple_driver, or SamePattern::solve) the
\* options the solver receives have ColPerm = MY_PERMC whatever policy the
\* options held before, and the perm_c buffer it receives is p unchanged;
\* without a hint ColPerm is the policy the caller set.
C12_HintForcesUserColumnPerm ==
    (sv_pc = "done" /\ sv_call.entry \in {"simple_driver", "c_simple_driver",
                                          "SimpleSystem", "SamePattern"}) =>
        /\ Len(sv_solver) >= 1
        /\ HintSupplied =>
              /\ FirstCall.options.ColPerm = "MY_PERMC"
              /\ FirstCall.perm_c = Unwrap(sv_call.perm_c)
        /\ (~HintSupplied /\ sv_call.entry = "SimpleSystem") =>
              FirstCall.options.ColPerm = colperm_t(sv_call.policy)
        /\ (~HintSupplied /\ sv_call.entry # "SimpleSystem") =>
              FirstCall.options = sv_call.options.options

\* C12 witness: simple_driver was given a hint of the matrix dimension that is
\* not the identity, with options whose policy had been set to NATURAL
C12_Witness ==
    /\ sv_pc = "done"
    /\ sv_call.entry = "simple_driver"
    /\ sv_call.options.options.ColPerm = "NATURAL"
    /\ sv_call.a.ncol = 2
    /\ sv_call.perm_c = Some(<<1, 0>>)
    /\ FirstCall.options.ColPerm = "MY_PERMC"
    /\ FirstCall.perm_c = <<1, 0>>

\* C13: in every solve variant the permutation buffers handed to the solver,
\* and those returned in the outcome, have the matrix dimension: perm_c has
\* A.num_cols entries and perm_r has A.num_rows entries, for fresh buffers
\* and for a hint of any length.
C13_PermBuffersHaveDimension ==
    sv_pc = "done" =>
        /\ \A i \in 1..Len(sv_solver) :
              /\ Len(sv_solver[i].perm_c) = sv_call.a.ncol
              /\ Len(sv_solver[i].perm_r) = sv_call.a.nrow
        /\ IsSome(sv_result.perm_c) => Len(Unwrap(sv_result.perm_c)) = sv_call.a.ncol
        /\ IsSome(sv_result.perm_r) => Len(Unwrap(sv_result.perm_r)) = sv_call.a.nrow

\* The solve entry points whose code is modelled
CodeEntries == {"simple_driver", "c_simple_driver", "SimpleSystem", "SamePattern"}

Distinguishes(result, info, n) ==
    /\ info = 0 => result.tag = "Ok"
    /\ (1 <= info /\ info <= n) =>
          /\ result.tag = "SingularFact"
          /\ result.singular_column = Some(info - 1)
    /\ info > n => /\ result.tag = "Err"
                   /\ result.error = Some(OutOfMemory(info - n))
    /\ info < 0 => /\ result.tag = "Err"
                   /\ result.error = Some(UnknownError)

Lookup(m, key) == IF key \in DOMAIN m.non_zero_vals THEN m.non_zero_vals[key] ELSE 0

\* Every key the model writes or reads
AllKeys == (0..MaxDim) \X (0..MaxDim)

\* The key and the value of the insert / insert_unbounded / get just made
QueryKey(q) == <<q.row, q.col>>
QueryVal(q) == q.x[1]

InRange(m, key) == key[1] < m.num_rows /\ key[2] < m.num_cols

\* No stored value is zero
NoStoredZero == \A k \in DOMAIN sm.non_zero_vals : sm.non_zero_vals[k] # 0

\* This step is an insert or insert_unbounded of 0 that returned
ZeroInsertStep ==
    /\ sm_query'.op \in {"insert", "insert_unbounded"}
    /\ sm_query'.x = <<0>>
    /\ sm_answer' = Returned(<<>>)

\* C17: inserting 0 at a key with insert (key in range) or insert_unbounded
\* (any key), whatever was stored there, leaves the key absent from the
\* backing map: get / get_unbounded of it return 0, num_non_zeros does not
\* count it, the other entries and the dimensions stay, a second zero insert
\* changes nothing, and no stored value is ever zero.
C17_ZeroInsertRemoves ==
    /\ []NoStoredZero
    /\ [][ZeroInsertStep =>
             LET key == QueryKey(sm_query')
             IN  /\ key \notin DOMAIN sm'.non_zero_vals
                 /\ get_unbounded(sm', key[1], key[2]) = 0
                 /\ InRange(sm', key) => get(sm', key[1], key[2]) = 0
                 /\ DOMAIN sm'.non_zero_vals = DOMAIN sm.non_zero_vals \ {key}
                 /\ num_non_zeros(sm') = Cardinality(DOMAIN sm.non_zero_vals \ {key})
                 /\ \A k \in DOMAIN sm'.non_zero_vals :
                       sm'.non_zero_vals[k] = sm.non_zero_vals[k]
                 /\ sm'.num_rows = sm.num_rows /\ sm'.num_cols = sm.num_cols
                 /\ insert_unbounded(sm', key[1], key[2], 0) = sm'
                 /\ InRange(sm', key) => insert(sm', key[1], key[2], 0) = sm'
          ]_vars

\* C17 witness: a zero insert at a key inside the matrix returned and left
\* the two other entries of the matrix
C17_Witness ==
    /\ sm_query.op = "insert"
    /\ sm_query.x = <<0>>
    /\ sm_answer = Returned(<<>>)
    /\ InRange(sm, QueryKey(sm_query))
    /\ num_non_zeros(sm) = 2

\* C18: after any sequence of operations on a triplet matrix (new, empty,
\* insert, insert_unbounded, resize, resize_rows, resize_cols, concat_cols,
\* concat_rows, concat, transpose) every stored key (row, col) has
\* row < num_rows and col < num_cols.
C18_KeysInsideMatrix ==
    \A k \in DOMAIN sm.non_zero_vals : k[1] < sm.num_rows /\ k[2] < sm.num_cols

\* C18 witness: a matrix that was resized down to the rows its two entries
\* need, with an entry in its last row
C18_Witness ==
    /\ sm_query.op = "resize_rows"
    /\ sm_answer = Returned(<<>>)
    /\ num_non_zeros(sm) = 2
    /\ sm.num_rows = 2
    /\ \E k \in DOMAIN sm.non_zero_vals : k[1] = 1

\* C19: insert_unbounded(row, col, val) with val # 0 stores val at (row, col)
\* and sets num_rows = max(old num_rows, row + 1) and num_cols = max(old
\* num_cols, col + 1); under insert_unbounded the dimensions never decrease
\* and every other entry is unchanged.
C19_InsertUnboundedGrows ==
    [][sm_query'.op = "insert_unbounded" =>
          LET key == QueryKey(sm_query')
              val == QueryVal(sm_query')
          IN  /\ sm'.num_rows >= sm.num_rows
              /\ sm'.num_cols >= sm.num_cols
              /\ \A k \in (DOMAIN sm.non_zero_vals \cup DOMAIN sm'.non_zero_vals) \ {key} :
                    Lookup(sm', k) = Lookup(sm, k)
              /\ val # 0 =>
                    /\ key \in DOMAIN sm'.non_zero_vals
                    /\ sm'.non_zero_vals[key] = val
                    /\ sm'.num_rows = IF sm.num_rows > key[1] + 1 THEN sm.num_rows
                                                                  ELSE key[1] + 1
                    /\ sm'.num_cols = IF sm.num_cols > key[2] + 1 THEN sm.num_cols
                                                                  ELSE key[2] + 1
      ]_vars

\* C19 witness: insert_unbounded stored a non-zero value in the last row of a
\* matrix that has more columns than the entry needs and another entry
C19_Witness ==
    /\ sm_query.op = "insert_unbounded"
    /\ sm_query.x # <<0>>
    /\ sm.num_rows = sm_query.row + 1
    /\ sm.num_cols > sm_query.col + 1
    /\ Lookup(sm, QueryKey(sm_query)) = QueryVal(sm_query)
    /\ num_non_zeros(sm) >= 2

\* This step is an insert or insert_unbounded that returned
WriteStep ==
    /\ sm_query'.op \in {"insert", "insert_unbounded"}
    /\ sm_answer' = Returned(<<>>)

\* What the matrix answers after each call: the key of a write that returned
\* reads as the written value, get of every in-range key returns what the
\* backing map holds (0 for an absent key), num_non_zeros counts the keys
\* that read non-zero, and a get that was made returned exactly that
ReadsWhatIsStored ==
    /\ (sm_query.op \in {"insert", "insert_unbounded"} /\ sm_answer = Returned(<<>>)) =>
          Lookup(sm, QueryKey(sm_query)) = QueryVal(sm_query)
    /\ \A k \in AllKeys : InRange(sm, k) => get(sm, k[1], k[2]) = Lookup(sm, k)
    /\ num_non_zeros(sm) = Cardinality({k \in AllKeys : Lookup(sm, k) # 0})
    /\ sm_query.op = "get" =>
          /\ sm_answer.tag = "Ok" <=> InRange(sm, QueryKey(sm_query))
          /\ sm_answer.tag = "Ok" =>
                sm_answer.out = <<Lookup(sm, QueryKey(sm_query))>>

\* C20: after any sequence of insert / insert_unbounded calls, get(row, col)
\* of an in-range key returns the value most recently written there when it
\* was non-zero and 0 when the key was never written or last written with 0;
\* writes to other keys do not change it, and num_non_zeros is the number of
\* keys whose last write was non-zero.  Stated step by step: a write makes
\* its key read as the written value and leaves every other key reading as
\* before, an insert that panics and a get change nothing, get returns what
\* the key reads as, and num_non_zeros counts the keys that read non-zero.
C20_GetReturnsLastWrite ==
    /\ []ReadsWhatIsStored
    /\ [][/\ WriteStep =>
                \A k \in (DOMAIN sm.non_zero_vals \cup DOMAIN sm'.non_zero_vals)
                            \ {QueryKey(sm_query')} :
                   Lookup(sm', k) = Lookup(sm, k)
          /\ (sm_query'.op = "insert" /\ sm_answer' = Panic) => sm' = sm
          /\ sm_query'.op = "get" => sm' = sm
         ]_vars

\* C20 witness: get returned the stored 7 from a matrix that also holds a 5
\* at another key
C20_Witness ==
    /\ sm_query.op = "get"
    /\ sm_answer = Returned(<<7>>)
    /\ Lookup(sm, QueryKey(sm_query)) = 7
    /\ \E k \in DOMAIN sm.non_zero_vals : k # QueryKey(sm_query) /\ sm.non_zero_vals[k] = 5

\* C21: insert(row, col, val) and get(row, col) with row >= num_rows or
\* col >= num_cols panic for every val, zero included, and leave the
\* dimensions and the entries of the matrix as they were; get_unbounded never
\* panics, changes nothing and returns 0 for such indices.
C21_OutOfRangeFails ==
    [][LET key == QueryKey(sm_query')
       IN  /\ (sm_query'.op \in {"insert", "get"} /\ ~InRange(sm, key)) =>
                 /\ sm_answer' = Panic
                 /\ sm' = sm
           /\ sm_query'.op = "get_unbounded" =>
                 /\ sm' = sm
                 /\ sm_answer'.tag = "Ok"
                 /\ ~InRange(sm, key) => sm_answer' = Returned(<<0>>)
      ]_vars

\* C21 witness: an insert of zero outside a matrix that holds an entry
\* panicked
C21_Witness ==
    /\ sm_query.op = "insert"
    /\ sm_query.x = <<0>>
    /\ sm_answer = Panic
    /\ ~InRange(sm, QueryKey(sm_query))
    /\ num_non_zeros(sm) >= 1

\* Every stored key of m lies inside rows x cols: rows and cols are at least
\* the bounding box of the entries, which is 0 x 0 for a matrix without entries
CoversEntries(m, rows, cols) ==
    \A k \in DOMAIN m.non_zero_vals : k[1] < rows /\ k[2] < cols

\* C22: resize(rows, cols) succeeds exactly when rows >= largest stored
\* row + 1 and cols >= largest stored col + 1 (both bounds 0 for a matrix
\* without entries); on success num_rows = rows, num_cols = cols and the
\* stored entries are unchanged; otherwise it panics.
C22_ResizeWithinBoundingBox ==
    [][sm_query'.op = "resize" =>
          LET rows == sm_query'.row
              cols == sm_query'.col
          IN  /\ sm_answer' \in {Returned(<<>>), Panic}
              /\ sm_answer' = Returned(<<>>) <=> CoversEntries(sm, rows, cols)
              /\ sm_answer' = Returned(<<>>) =>
                    /\ sm'.num_rows = rows
                    /\ sm'.num_cols = cols
                    /\ sm'.non_zero_vals = sm.non_zero_vals
      ]_vars

\* C22 witness: a resize to exactly the bounding box 1 x 2 of two entries
\* succeeded
C22_Witness ==
    /\ sm_query = [op |-> "resize", row |-> 1, col |-> 2, x |-> <<>>]
    /\ sm_answer = Returned(<<>>)
    /\ sm.num_rows = 1 /\ sm.num_cols = 2
    /\ DOMAIN sm.non_zero_vals = {<<0, 0>>, <<0, 1>>}

\* C30: a resize(rows, cols) that fails leaves num_rows, num_cols and all
\* entries as they were before the call.
C30_FailedResizeChangesNothing ==
    [][(sm_query'.op = "resize" /\ sm_answer' = Panic) => sm' = sm]_vars

\* The columns, and the rows, of the first n matrices of a list together
RECURSIVE ColsOfFirst(_, _)
ColsOfFirst(ms, n) == IF n = 0 THEN 0 ELSE ColsOfFirst(ms, n - 1) + ms[n].num_cols
RECURSIVE RowsOfFirst(_, _)
RowsOfFirst(ms, n) == IF n = 0 THEN 0 ELSE RowsOfFirst(ms, n - 1) + ms[n].num_rows

\* The entries of matrix i of the list, each moved right by the columns (down
\* by the rows) of the matrices before it
ShiftedRight(ms, i) ==
    {<< <<k[1], k[2] + ColsOfFirst(ms, i - 1)>>, ms[i].non_zero_vals[k] >> :
        k \in DOMAIN ms[i].non_zero_vals}
ShiftedDown(ms, i) ==
    {<< <<k[1] + RowsOfFirst(ms, i - 1), k[2]>>, ms[i].non_zero_vals[k] >> :
        k \in DOMAIN ms[i].non_zero_vals}

\* The entries of a matrix as a set of (key, value) pairs
EntriesOf(m) == {<<k, m.non_zero_vals[k]>> : k \in DOMAIN m.non_zero_vals}

\* C23: concat_cols([M1..Mk]) returns exactly when every Mi has the num_rows
\* of M1 and panics otherwise; the matrix returned has that num_rows and
\* num_cols = sum of Mi.num_cols, entry (r, c + sum of Mj.num_cols for j < i)
\* equals Mi.get(r, c) for every i, r, c, and there is no other entry.
C23_ConcatColsPlacesBlocks ==
    fn_call.op = "concat_cols" =>
       LET ms == fn_call.args
           same == \A i \in 1..Len(ms) : ms[i].num_rows = ms[1].num_rows
           out == fn_result.value
       IN  /\ fn_result.tag = "Ok" <=> same
           /\ fn_result.tag = "Panic" <=> ~same
           /\ same =>
                 /\ out.num_rows = ms[1].num_rows
                 /\ out.num_cols = ColsOfFirst(ms, Len(ms))
                 /\ \A i \in 1..Len(ms) :
                    \A r \in 0..(ms[i].num_rows - 1), c \in 0..(ms[i].num_cols - 1) :
                       get(out, r, c + ColsOfFirst(ms, i - 1)) = get(ms[i], r, c)
                 /\ EntriesOf(out) = UNION {ShiftedRight(ms, i) : i \in 1..Len(ms)}

\* C23 witness: three matrices of one row went in, the first with an empty
\* last column, and the entry of the last one came out in the last column
C23_Witness ==
    /\ fn_call.op = "concat_cols"
    /\ fn_result.tag = "Ok"
    /\ Len(fn_call.args) = 3
    /\ fn_call.args[1] = Mat(1, 2, <<0, 0>> :> 5)
    /\ fn_call.args[3] = Mat(1, 1, <<0, 0>> :> 7)
    /\ num_non_zeros(fn_call.args[2]) = 1
    /\ get(fn_result.value, 0, fn_result.value.num_cols - 1) = 7

\* C24: concat_rows([M1..Mk]) returns exactly when every Mi has the num_cols
\* of M1 and panics otherwise; the matrix returned has that num_cols and
\* num_rows = sum of Mi.num_rows, entry (r + sum of Mj.num_rows for j < i, c)
\* equals Mi.get(r, c) for every i, r, c, and there is no other entry; concat
\* of a grid of blocks is concat_rows of the concat_cols of each block row,
\* and panics when one of these does.
C24_ConcatRowsPlacesBlocks ==
    /\ fn_call.op = "concat_rows" =>
          LET ms == fn_call.args
              same == \A i \in 1..Len(ms) : ms[i].num_cols = ms[1].num_cols
              out == fn_result.value
          IN  /\ fn_result.tag = "Ok" <=> same
              /\ fn_result.tag = "Panic" <=> ~same
              /\ same =>
                    /\ out.num_cols = ms[1].num_cols
                    /\ out.num_rows = RowsOfFirst(ms, Len(ms))
                    /\ \A i \in 1..Len(ms) :
                       \A r \in 0..(ms[i].num_rows - 1), c \in 0..(ms[i].num_cols - 1) :
                          get(out, r + RowsOfFirst(ms, i - 1), c) = get(ms[i], r, c)
                    /\ EntriesOf(out) = UNION {ShiftedDown(ms, i) : i \in 1..Len(ms)}
    /\ fn_call.op = "concat" =>
          LET grid == fn_call.args
              block_rows == [i \in 1..Len(grid) |-> concat_cols(grid[i])]
          IN  IF \E i \in 1..Len(grid) : block_rows[i].tag = "Panic"
              THEN fn_result = FnPanic
              ELSE fn_result =
                      FnReturn(concat_rows([i \in 1..Len(grid) |-> block_rows[i].m]))

\* C24 witness: three matrices of one column went in, the first with an
\* empty first row, and the entry of the last one came out in the last row
C24_Witness ==
    /\ fn_call.op = "concat_rows"
    /\ fn_result.tag = "Ok"
    /\ Len(fn_call.args) = 3
    /\ fn_call.args[1] = Mat(2, 1, <<1, 0>> :> 5)
    /\ fn_call.args[3] = Mat(1, 1, <<0, 0>> :> 7)
    /\ fn_result.value.num_rows >= 4
    /\ get(fn_result.value, fn_result.value.num_rows - 1, 0) = 7

LenIsProduct(len, n_rows, n_cols) ==
    IF n_rows = Usize(0) \/ n_cols = Usize(0) THEN len = 0
    ELSE IF n_rows[1] > 0 \/ n_cols[1] > 0 THEN FALSE
    ELSE len = n_rows[2] * n_cols[2]

\* C26: dense matrix creation returns Err(DenseMatrixError) exactly when
\* column_major_values.len() # num_rows * num_cols, and otherwise succeeds
\* with the given num_rows and num_cols and the values as they were given.
C26_DenseCreationChecksLength ==
    fn_call.op = "c_create_dense_matrix" =>
       LET n_rows == fn_call.args[1]
           n_cols == fn_call.args[2]
           column_major_values == fn_call.args[3]
       IN  IF LenIsProduct(Len(column_major_values), n_rows, n_cols)
           THEN /\ fn_result.tag = "Ok"
                /\ Usize(fn_result.value.nrow) = n_rows
                /\ Usize(fn_result.value.ncol) = n_cols
                /\ fn_result.value.nzval = column_major_values
           ELSE fn_result = FnErr("DenseMatrixError")

\* L.num_rows = U.num_rows = L.num_cols = U.num_cols
SquareAndEqual(l, u) ==
    /\ l.nrow = u.nrow
    /\ l.ncol = u.ncol
    /\ l.nrow = l.ncol

\* C27: every LUDecomp that gets constructed has L.num_rows = U.num_rows =
\* L.num_cols = U.num_cols, and constructing one from an L and a U that
\* violate this fails.
C27_LUDecompIsSquare ==
    fn_call.op \in {"LUDecomp::from_matrices", "LUDecomp::new"} =>
       LET l == fn_call.args[1]
           u == fn_call.args[2]
       IN  /\ fn_result.tag = "Ok" => SquareAndEqual(fn_result.value.l, fn_result.value.u)
           /\ ~SquareAndEqual(l, u) => fn_result = FnPanic

\* C28: for a matrix created by from_raw, at the end of every operation of
\* its life (drop; to_raw and then the drop of what it returned, or from_raw
\* again) each backing vector is either held by exactly one owner or has been
\* freed exactly once by Rust, the library has freed none, and every store
\* created is destroyed exactly once, at the latest when the matrix is gone.
C28_OneOwnerOneFree ==
    cc_own.stores_created > 0 =>
       /\ \A v \in Vectors :
             /\ Cardinality(cc_own.owners[v]) + cc_own.rust_frees[v] = 1
             /\ cc_own.lib_frees[v] = 0
             /\ cc_pc = "dropped" => cc_own.rust_frees[v] = 1
       /\ cc_own.stores_created - cc_own.stores_destroyed =
             (IF \E v \in Vectors : "mat" \in cc_own.owners[v] THEN 1 ELSE 0)

\* to_raw was called and the vectors it returned were dropped
C28_Witness ==
    /\ cc_pc = "dropped"
    /\ cc_back # NoRaw
    /\ cc_own.stores_created = 1
    /\ cc_own.stores_destroyed = 1
    /\ \A v \in Vectors : cc_own.rust_frees[v] = 1 /\ cc_own.owners[v] = {}

\* The three fields the diagonally dominant mode fixes
DominantFields(o) == <<o.SymmetricMode, o.ColPerm, o.DiagPivotThresh>>

\* The mode being on, SymmetricMode is YES and ColPerm is MMD_AT_PLUS_A
DominantFieldsHold(s) ==
    s.diagonally_dominant =>
       /\ s.options.SymmetricMode = "YES"
       /\ s.options.ColPerm = "MMD_AT_PLUS_A"

\* The options a driver hands to *gssv hold the three fields of the options
\* it was called with, when these had the mode on
DriverKeepsDominant ==
    (sv_call.entry \in {"simple_driver", "c_simple_driver"}
        /\ sv_call.options.diagonally_dominant) =>
       \A i \in DOMAIN sv_solver :
          DominantFields(sv_solver[i].options) = DominantFields(sv_call.options.options)

\* C29: whenever diagonally_dominant is true, SymmetricMode is YES, ColPerm is
\* MMD_AT_PLUS_A and DiagPivotThresh is the u given to
\* set_diagonally_dominant(true, u): no setter and no handling of a
\* column-permutation hint by a driver changes the three fields while the
\* mode is on.
C29_DiagonallyDominantKept ==
    /\ [](DominantFieldsHold(sv_options) /\ DriverKeepsDominant)
    /\ [][/\ (~sv_options.diagonally_dominant /\ sv_options'.diagonally_dominant) =>
               \E u \in ThreshValues :
                  /\ sv_options' = set_diagonally_dominant(sv_options, TRUE, u).options
                  /\ sv_options'.options.DiagPivotThresh = u
          /\ (sv_options.diagonally_dominant /\ sv_options'.diagonally_dominant) =>
               DominantFields(sv_options'.options) = DominantFields(sv_options.options)
         ]_vars

====
